---- MODULE Spec2Model ----
(***************************************************************************)
(* Flow compiler (backend/app/compiler/flow_compiler.py) and runtime       *)
(* execution engine (backend/app/services/execution_engine.py).            *)
(*                                                                         *)
(* Strings of the program are TLA+ strings; Python's None is the string    *)
(* None below.  Event timestamps (wall clock) are not modelled.            *)
(***************************************************************************)
EXTENDS Integers, Sequences, FiniteSets, TLC

VARIABLES
    flow,              \* the FlowDefinition handed to FlowCompiler.compile
    compile_result,    \* outcome of FlowCompiler.compile(flow)
    plan,              \* the execution_graph dict handed to ExecutionEngine.execute
    condition_evaluator, \* ExecutionEngine._condition_evaluator (injected or not)
    branch_decisions,  \* ExecutionEngine._branch_decisions (a field of the engine instance)
    pc,                \* per invocation: where the async generator is suspended
    user_input,        \* per invocation: the user_input argument
    idx,               \* per invocation: position of node_id in execution_order
    node_outputs,      \* per invocation: local dict node_outputs
    skipped_nodes,     \* per invocation: local set skipped_nodes
    events,            \* per invocation: events handed to the consumer so far
    pulls,             \* per invocation: number of __anext__ requests of the consumer
    calls,             \* per invocation: provider/evaluator calls begun so far
    own_decisions,     \* per invocation: decisions this invocation stored (history)
    retry,             \* the wrapper retry_with_backoff returns, and its call
    provider,          \* what the providers outside the engine do in this process
    websocket          \* the connection execution_websocket serves, and its handler

vars == <<flow, compile_result, plan, condition_evaluator, branch_decisions, pc,
          user_input, idx, node_outputs, skipped_nodes, events, pulls, calls,
          own_decisions, retry, provider, websocket>>

engine_vars == <<plan, condition_evaluator, branch_decisions, pc, user_input, idx,
                 node_outputs, skipped_nodes, events, pulls, calls, own_decisions>>

None == "None"

(***************************************************************************)
(* Bounds of the model.                                                    *)
(***************************************************************************)
MaxEdges == 3          \* longest edge list of a flow

NodeIds == <<"n1", "n2", "n3">>     \* node ids, in the order a flow declares them

MaxConcurrentNodes == 2    \* nodes of a flow that two invocations execute at once

MaxSequentialNodes == 1    \* nodes of a flow of any types that is executed twice

MaxProviderEdges == 2      \* edges of a flow executed with providers of every kind

Range(s) == {s[i] : i \in DOMAIN s}

SeqsUpTo(S, n) == UNION {[1..k -> S] : k \in 0..n}

(***************************************************************************)
(* app/models/flow.py                                                      *)
(***************************************************************************)
\* NodeConfig: only the variant of the node's own type is modelled; present
\* says whether that Optional field is populated.
NoConfig == [present |-> FALSE, label |-> "", sources |-> <<>>]

SomeConfig == [present |-> TRUE, label |-> "hello", sources |-> <<>>]

\* a KnowledgeBaseConfig with two sources
SourcesConfig == [present |-> TRUE, label |-> "", sources |-> <<"doc.pdf", "https://a.io">>]

FlowNode(id, type, config) == [id |-> id, type |-> type, config |-> config]

FlowEdge(i, source, source_handle, target) ==
    [id |-> i, source |-> source, source_handle |-> source_handle, target |-> target]

FlowDefinition(nodes, edges) == [id |-> "flow-1", nodes |-> nodes, edges |-> edges]

(***************************************************************************)
(* app/compiler/nodes: the registry and the node compilers                 *)
(***************************************************************************)
\* register_all_compilers: the node_type property of every class in ALL_COMPILERS
RegisteredTypes == {"input", "agent", "tool", "output", "conditional", "knowledge_base",
                    "firecrawl_scrape", "mcp_server", "huggingface_inference",
                    "apify_actor"}

\* a compiled node; fields a compiler does not set are None
CompiledNode(node_id, node_type) ==
    [node_id |-> node_id, node_type |-> node_type, raw |-> FALSE, agent |-> None,
     value |-> "", condition |-> "", knowledge |-> None, knowledge_error |-> None,
     sources |-> <<>>]

\* the compilers with WebSearchNodeCompiler returning its own node_type
NodeCompile_Mutant(node, context, kb) ==
    LET base == CompiledNode(node.id, node.type) IN
    CASE node.type = "input" ->
           [ok |-> TRUE, error |-> None,
            compiled |-> [base EXCEPT !.value =
                             IF "user_input" \in DOMAIN context
                             THEN "<compiled node user_input>"
                             ELSE IF node.config.present THEN node.config.label ELSE ""]]
      [] node.type = "agent" ->
           IF ~node.config.present
           THEN [ok |-> FALSE, error |-> <<"missing agent configuration", node.id>>,
                 compiled |-> base]
           ELSE [ok |-> TRUE, error |-> None, compiled |-> [base EXCEPT !.agent = "Agent"]]
      [] node.type = "tool" ->
           [ok |-> TRUE, error |-> None,
            compiled |-> [base EXCEPT !.agent = "Agent"]]
      [] node.type = "output" ->
           [ok |-> TRUE, error |-> None, compiled |-> base]
      [] node.type = "conditional" ->
           [ok |-> TRUE, error |-> None,
            compiled |-> [base EXCEPT !.condition =
                             IF node.config.present THEN "cond" ELSE ""]]
      [] node.type = "knowledge_base" ->
           IF ~node.config.present
           THEN [ok |-> FALSE, error |-> <<"missing knowledge_base configuration", node.id>>,
                 compiled |-> base]
           ELSE [ok |-> TRUE, error |-> None,
                 compiled |->
                    IF node.config.sources = <<>>
                    THEN base
                    ELSE IF kb
                         THEN [base EXCEPT !.sources = node.config.sources,
                                           !.knowledge = "Knowledge"]
                         ELSE [base EXCEPT !.sources = node.config.sources,
                                           !.knowledge_error = "DATABASE_URL not set"]]
      [] OTHER ->
           IF ~node.config.present
           THEN [ok |-> FALSE, error |-> <<"missing configuration", node.id>>,
                 compiled |-> base]
           ELSE [ok |-> TRUE, error |-> None, compiled |-> base]

\* compile() of the compiler registered for node.type: a compiled node, or the
\* ValueError it raises.  kb says whether the PgVector knowledge can be built.
\* context is the dict of the nodes compiled so far, keyed by node id, in which
\* InputNodeCompiler looks up the key "user_input"; the compiled node it finds
\* there is written as the string "<compiled node user_input>".
NodeCompile(node, context, kb) ==
    LET base == CompiledNode(node.id, node.type) IN
    CASE node.type = "input" ->
           [ok |-> TRUE, error |-> None,
            compiled |-> [base EXCEPT !.value =
                             IF "user_input" \in DOMAIN context
                             THEN "<compiled node user_input>"
                             ELSE IF node.config.present THEN node.config.label ELSE ""]]
      [] node.type = "agent" ->
           IF ~node.config.present
           THEN [ok |-> FALSE, error |-> <<"missing agent configuration", node.id>>,
                 compiled |-> base]
           ELSE [ok |-> TRUE, error |-> None, compiled |-> [base EXCEPT !.agent = "Agent"]]
      [] node.type = "tool" ->
           [ok |-> TRUE, error |-> None,
            compiled |-> [base EXCEPT !.node_type = "web_search", !.agent = "Agent"]]
      [] node.type = "output" ->
           [ok |-> TRUE, error |-> None, compiled |-> base]
      [] node.type = "conditional" ->
           [ok |-> TRUE, error |-> None,
            compiled |-> [base EXCEPT !.condition =
                             IF node.config.present THEN "cond" ELSE ""]]
      [] node.type = "knowledge_base" ->
           IF ~node.config.present
           THEN [ok |-> FALSE, error |-> <<"missing knowledge_base configuration", node.id>>,
                 compiled |-> base]
           ELSE [ok |-> TRUE, error |-> None,
                 compiled |->
                    IF node.config.sources = <<>>
                    THEN base
                    ELSE IF kb
                         THEN [base EXCEPT !.sources = node.config.sources,
                                           !.knowledge = "Knowledge"]
                         ELSE [base EXCEPT !.sources = node.config.sources,
                                           !.knowledge_error = "DATABASE_URL not set"]]
      [] OTHER ->
           IF ~node.config.present
           THEN [ok |-> FALSE, error |-> <<"missing configuration", node.id>>,
                 compiled |-> base]
           ELSE [ok |-> TRUE, error |-> None, compiled |-> base]

(***************************************************************************)
(* app/compiler/flow_compiler.py                                           *)
(***************************************************************************)
NodeIdSet(f) == {f.nodes[i].id : i \in DOMAIN f.nodes}

\* keys of a dict built from flow.nodes, in insertion order (first occurrence)
KeyOrder(f) ==
    LET F[i \in 0..Len(f.nodes)] ==
          IF i = 0 THEN <<>>
          ELSE IF \E j \in 1..(i - 1) : f.nodes[j].id = f.nodes[i].id
               THEN F[i - 1]
               ELSE Append(F[i - 1], f.nodes[i].id)
    IN F[Len(f.nodes)]

\* _validate returning at the first problem it finds
Validate_Mutant(f) ==
    LET node_ids == NodeIdSet(f)
        EdgeErrors(edge) ==
            (IF edge.source \notin node_ids
             THEN <<<<"unknown source", edge.id, edge.source>>>> ELSE <<>>)
            \o
            (IF edge.target \notin node_ids
             THEN <<<<"unknown target", edge.id, edge.target>>>> ELSE <<>>)
        E[i \in 0..Len(f.edges)] ==
            IF i = 0 THEN <<>> ELSE E[i - 1] \o EdgeErrors(f.edges[i])
        all == (IF f.nodes = <<>> THEN <<<<"Flow must have at least one node.", None, None>>>>
                ELSE <<>>) \o E[Len(f.edges)]
    IN IF all = <<>> THEN <<>> ELSE <<all[1]>>

\* FlowCompiler._validate
Validate(f) ==
    LET node_ids == NodeIdSet(f)
        EdgeErrors(edge) ==
            (IF edge.source \notin node_ids
             THEN <<<<"unknown source", edge.id, edge.source>>>> ELSE <<>>)
            \o
            (IF edge.target \notin node_ids
             THEN <<<<"unknown target", edge.id, edge.target>>>> ELSE <<>>)
        E[i \in 0..Len(f.edges)] ==
            IF i = 0 THEN <<>> ELSE E[i - 1] \o EdgeErrors(f.edges[i])
    IN (IF f.nodes = <<>> THEN <<<<"Flow must have at least one node.", None, None>>>>
        ELSE <<>>) \o E[Len(f.edges)]

\* _build_adjacency putting each target in front of the list
BuildAdjacency_Mutant(f) ==
    LET A[i \in 0..Len(f.edges)] ==
          IF i = 0 THEN [id \in NodeIdSet(f) |-> <<>>]
          ELSE [A[i - 1] EXCEPT ![f.edges[i].source] = <<f.edges[i].target>> \o @]
    IN A[Len(f.edges)]

\* FlowCompiler._build_adjacency
BuildAdjacency(f) ==
    LET A[i \in 0..Len(f.edges)] ==
          IF i = 0 THEN [id \in NodeIdSet(f) |-> <<>>]
          ELSE [A[i - 1] EXCEPT ![f.edges[i].source] = Append(@, f.edges[i].target)]
    IN A[Len(f.edges)]

\* in_degree counted at the edges' sources instead of their targets
InDegree_Mutant(f) ==
    LET D[i \in 0..Len(f.edges)] ==
          IF i = 0 THEN [id \in NodeIdSet(f) |-> 0]
          ELSE [D[i - 1] EXCEPT ![f.edges[i].source] = @ + 1]
    IN D[Len(f.edges)]

\* the in_degree dict of _topological_sort after its first loop
InDegree(f) ==
    LET D[i \in 0..Len(f.edges)] ==
          IF i = 0 THEN [id \in NodeIdSet(f) |-> 0]
          ELSE [D[i - 1] EXCEPT ![f.edges[i].target] = @ + 1]
    IN D[Len(f.edges)]

\* the inner for loop of _topological_sort over adjacency[current]
RelaxNeighbors(neighbors, in_degree, queue) ==
    LET R[i \in 0..Len(neighbors)] ==
          IF i = 0 THEN [in_degree |-> in_degree, queue |-> queue]
          ELSE LET deg == [R[i - 1].in_degree EXCEPT ![neighbors[i]] = @ - 1]
               IN [in_degree |-> deg,
                   queue |-> IF deg[neighbors[i]] = 0
                             THEN Append(R[i - 1].queue, neighbors[i])
                             ELSE R[i - 1].queue]
    IN R[Len(neighbors)]

\* the while loop taking the node added last (queue.pop()) instead of the first
RECURSIVE KahnLoop_Mutant(_, _, _, _)
KahnLoop_Mutant(queue, sorted_ids, in_degree, adjacency) ==
    IF queue = <<>> THEN sorted_ids
    ELSE LET current == queue[Len(queue)]
             r == RelaxNeighbors(adjacency[current], in_degree,
                                 SubSeq(queue, 1, Len(queue) - 1))
         IN KahnLoop_Mutant(r.queue, Append(sorted_ids, current), r.in_degree, adjacency)

\* the while loop of _topological_sort
RECURSIVE KahnLoop(_, _, _, _)
KahnLoop(queue, sorted_ids, in_degree, adjacency) ==
    IF queue = <<>> THEN sorted_ids
    ELSE LET current == Head(queue)
             r == RelaxNeighbors(adjacency[current], in_degree, Tail(queue))
         IN KahnLoop(r.queue, Append(sorted_ids, current), r.in_degree, adjacency)

\* _topological_sort without the comparison of len(sorted_ids) and len(flow.nodes)
TopologicalSort_Mutant(f, adjacency) ==
    LET in_degree == InDegree(f)
        queue == SelectSeq(KeyOrder(f), LAMBDA nid : in_degree[nid] = 0)
    IN [ok |-> TRUE, order |-> KahnLoop(queue, <<>>, in_degree, adjacency)]

\* _topological_sort comparing len(sorted_ids) with the number of distinct ids
TopologicalSort_MutantDistinct(f, adjacency) ==
    LET in_degree == InDegree(f)
        queue == SelectSeq(KeyOrder(f), LAMBDA nid : in_degree[nid] = 0)
        sorted_ids == KahnLoop(queue, <<>>, in_degree, adjacency)
    IN IF Len(sorted_ids) # Cardinality(NodeIdSet(f))
       THEN [ok |-> FALSE, order |-> sorted_ids]
       ELSE [ok |-> TRUE, order |-> sorted_ids]

\* FlowCompiler._topological_sort: the order, or the cycle ValueError
TopologicalSort(f, adjacency) ==
    LET in_degree == InDegree(f)
        queue == SelectSeq(KeyOrder(f), LAMBDA nid : in_degree[nid] = 0)
        sorted_ids == KahnLoop(queue, <<>>, in_degree, adjacency)
    IN IF Len(sorted_ids) # Len(f.nodes)
       THEN [ok |-> FALSE, order |-> sorted_ids]
       ELSE [ok |-> TRUE, order |-> sorted_ids]

\* node_map = {n.id: n for n in flow.nodes}: the last node declared with the id
NodeMap(f) ==
    [id \in NodeIdSet(f) |->
        f.nodes[CHOOSE i \in DOMAIN f.nodes :
                   /\ f.nodes[i].id = id
                   /\ \A j \in DOMAIN f.nodes : f.nodes[j].id = id => j <= i]]

EmptyMap == [x \in {} |-> None]

\* the for loop of FlowCompiler.compile over sorted_node_ids
\* the compile loop raising for a node type without a registered compiler
RECURSIVE CompileNodes_MutantRaise(_, _, _, _, _, _)
CompileNodes_MutantRaise(f, order, i, compiled_nodes, compiler_calls, kb) ==
    IF i > Len(order)
    THEN [ok |-> TRUE, error |-> None, compiled_nodes |-> compiled_nodes,
          compiler_calls |-> compiler_calls]
    ELSE LET node == NodeMap(f)[order[i]] IN
         IF node.type \in RegisteredTypes
         THEN LET r == NodeCompile(node, compiled_nodes, kb)
                  called == Append(compiler_calls,
                                   [node |-> node.id, context |-> DOMAIN compiled_nodes])
              IN IF r.ok
                 THEN CompileNodes_MutantRaise(f, order, i + 1,
                                   (order[i] :> r.compiled) @@ compiled_nodes, called, kb)
                 ELSE [ok |-> FALSE, error |-> r.error, compiled_nodes |-> compiled_nodes,
                       compiler_calls |-> called]
         ELSE [ok |-> FALSE, error |-> <<"no compiler registered", node.id>>,
               compiled_nodes |-> compiled_nodes, compiler_calls |-> compiler_calls]

\* the compile loop leaving out a node whose compiler raised
RECURSIVE CompileNodes_MutantPartial(_, _, _, _, _, _)
CompileNodes_MutantPartial(f, order, i, compiled_nodes, compiler_calls, kb) ==
    IF i > Len(order)
    THEN [ok |-> TRUE, error |-> None, compiled_nodes |-> compiled_nodes,
          compiler_calls |-> compiler_calls]
    ELSE LET node == NodeMap(f)[order[i]] IN
         IF node.type \in RegisteredTypes
         THEN LET r == NodeCompile(node, compiled_nodes, kb)
                  called == Append(compiler_calls,
                                   [node |-> node.id, context |-> DOMAIN compiled_nodes])
              IN CompileNodes_MutantPartial(f, order, i + 1,
                    IF r.ok THEN (order[i] :> r.compiled) @@ compiled_nodes
                    ELSE compiled_nodes,
                    called, kb)
         ELSE CompileNodes_MutantPartial(f, order, i + 1,
                           (order[i] :> [CompiledNode(node.id, node.type) EXCEPT !.raw = TRUE])
                              @@ compiled_nodes,
                           compiler_calls, kb)

\* the compile loop handing a compiler the compiled direct predecessors only
RECURSIVE CompileNodes_MutantContext(_, _, _, _, _, _)
CompileNodes_MutantContext(f, order, i, compiled_nodes, compiler_calls, kb) ==
    IF i > Len(order)
    THEN [ok |-> TRUE, error |-> None, compiled_nodes |-> compiled_nodes,
          compiler_calls |-> compiler_calls]
    ELSE LET node == NodeMap(f)[order[i]]
             predecessors == {f.edges[e].source : e \in {x \in DOMAIN f.edges :
                                                           f.edges[x].target = node.id}}
             context == [id \in DOMAIN compiled_nodes \cap predecessors |->
                            compiled_nodes[id]]
         IN
         IF node.type \in RegisteredTypes
         THEN LET r == NodeCompile(node, context, kb)
                  called == Append(compiler_calls,
                                   [node |-> node.id, context |-> DOMAIN context])
              IN IF r.ok
                 THEN CompileNodes_MutantContext(f, order, i + 1,
                                   (order[i] :> r.compiled) @@ compiled_nodes, called, kb)
                 ELSE [ok |-> FALSE, error |-> r.error, compiled_nodes |-> compiled_nodes,
                       compiler_calls |-> called]
         ELSE CompileNodes_MutantContext(f, order, i + 1,
                           (order[i] :> [CompiledNode(node.id, node.type) EXCEPT !.raw = TRUE])
                              @@ compiled_nodes,
                           compiler_calls, kb)

RECURSIVE CompileNodes(_, _, _, _, _, _)
CompileNodes(f, order, i, compiled_nodes, compiler_calls, kb) ==
    IF i > Len(order)
    THEN [ok |-> TRUE, error |-> None, compiled_nodes |-> compiled_nodes,
          compiler_calls |-> compiler_calls]
    ELSE LET node == NodeMap(f)[order[i]] IN
         IF node.type \in RegisteredTypes
         THEN LET r == NodeCompile(node, compiled_nodes, kb)
                  called == Append(compiler_calls,
                                   [node |-> node.id, context |-> DOMAIN compiled_nodes])
              IN IF r.ok
                 THEN CompileNodes(f, order, i + 1,
                                   (order[i] :> r.compiled) @@ compiled_nodes, called, kb)
                 ELSE [ok |-> FALSE, error |-> r.error, compiled_nodes |-> compiled_nodes,
                       compiler_calls |-> called]
         ELSE CompileNodes(f, order, i + 1,
                           (order[i] :> [CompiledNode(node.id, node.type) EXCEPT !.raw = TRUE])
                              @@ compiled_nodes,
                           compiler_calls, kb)

NoPlan == [flow_id |-> None, compiled_nodes |-> EmptyMap, edges |-> <<>>,
           adjacency |-> EmptyMap, execution_order |-> <<>>]

NotCompiled == [status |-> "none", errors |-> <<>>, plan |-> NoPlan, compiler_calls |-> <<>>]

\* compile building the adjacency and sorting before it validates: the lookup
\* of an unknown edge endpoint in the adjacency or in-degree dict is a KeyError
Compile_Mutant(f, kb) ==
    IF \E i \in DOMAIN f.edges :
          f.edges[i].source \notin NodeIdSet(f) \/ f.edges[i].target \notin NodeIdSet(f)
    THEN [status |-> "key_error", errors |-> <<>>, plan |-> NoPlan, compiler_calls |-> <<>>]
    ELSE LET adjacency == BuildAdjacency(f)
             sorted == TopologicalSort(f, adjacency)
             errors == Validate(f)
         IN IF ~sorted.ok
            THEN [status |-> "cycle", errors |-> <<>>, plan |-> NoPlan,
                  compiler_calls |-> <<>>]
            ELSE IF errors # <<>>
            THEN [status |-> "validation", errors |-> errors, plan |-> NoPlan,
                  compiler_calls |-> <<>>]
            ELSE LET c == CompileNodes(f, sorted.order, 1, EmptyMap, <<>>, kb) IN
                 IF ~c.ok
                 THEN [status |-> "config", errors |-> <<c.error>>, plan |-> NoPlan,
                       compiler_calls |-> c.compiler_calls]
                 ELSE [status |-> "ok", errors |-> <<>>,
                       plan |-> [flow_id |-> f.id, compiled_nodes |-> c.compiled_nodes,
                                 edges |-> f.edges, adjacency |-> adjacency,
                                 execution_order |-> sorted.order],
                       compiler_calls |-> c.compiler_calls]

\* FlowCompiler.compile: status is "ok" with the returned plan, or names the
\* ValueError raised ("validation", "cycle", "config")
Compile(f, kb) ==
    LET errors == Validate(f) IN
    IF errors # <<>>
    THEN [status |-> "validation", errors |-> errors, plan |-> NoPlan, compiler_calls |-> <<>>]
    ELSE LET adjacency == BuildAdjacency(f)
             sorted == TopologicalSort(f, adjacency)
         IN IF ~sorted.ok
            THEN [status |-> "cycle", errors |-> <<>>, plan |-> NoPlan,
                  compiler_calls |-> <<>>]
            ELSE LET c == CompileNodes(f, sorted.order, 1, EmptyMap, <<>>, kb) IN
                 IF ~c.ok
                 THEN [status |-> "config", errors |-> <<c.error>>, plan |-> NoPlan,
                       compiler_calls |-> c.compiler_calls]
                 ELSE [status |-> "ok", errors |-> <<>>,
                       plan |-> [flow_id |-> f.id, compiled_nodes |-> c.compiled_nodes,
                                 edges |-> f.edges, adjacency |-> adjacency,
                                 execution_order |-> sorted.order],
                       compiler_calls |-> c.compiler_calls]

(***************************************************************************)
(* app/services/execution_engine.py                                        *)
(***************************************************************************)
Runs == {1, 2}         \* the execute invocations on the one engine instance

\* ExecutionEvent (to_dict without the timestamp)
ExecutionEvent(event_type, node_id, flow_id, data, message) ==
    [type |-> event_type, node_id |-> node_id, flow_id |-> flow_id, data |-> data,
     message |-> message]

\* "\n\n".join(blocks)
RECURSIVE JoinBlocks(_)
JoinBlocks(blocks) ==
    IF blocks = <<>> THEN ""
    ELSE IF Len(blocks) = 1 THEN blocks[1]
    ELSE blocks[1] \o "\n\n" \o JoinBlocks(Tail(blocks))

\* string concatenation of the parts
RECURSIVE Concat(_)
Concat(parts) == IF parts = <<>> THEN "" ELSE parts[1] \o Concat(Tail(parts))

\* _get_upstream_output joining the bare outputs
GetUpstreamOutput_Mutant(node_id, edges, outputs) ==
    LET incoming == SelectSeq(edges, LAMBDA e : e.target = node_id)
        upstream_ids == [i \in DOMAIN incoming |-> incoming[i].source]
        having == SelectSeq(upstream_ids, LAMBDA uid : uid \in DOMAIN outputs)
    IN Concat([i \in DOMAIN having |-> outputs[having[i]]])

\* _get_upstream_output without the case of a single part
GetUpstreamOutput_MutantBlocks(node_id, edges, outputs) ==
    LET incoming == SelectSeq(edges, LAMBDA e : e.target = node_id)
        upstream_ids == [i \in DOMAIN incoming |-> incoming[i].source]
        having == SelectSeq(upstream_ids, LAMBDA uid : uid \in DOMAIN outputs)
    IN JoinBlocks([i \in DOMAIN having |->
                     "[Input from " \o having[i] \o "]:\n" \o outputs[having[i]]])

\* _get_upstream_output leaving out the edges of a decided conditional that
\* name the handle not taken
GetUpstreamOutput_MutantLive(node_id, edges, outputs) ==
    LET incoming == SelectSeq(edges, LAMBDA e :
                        /\ e.target = node_id
                        /\ ~ (/\ e.source \in DOMAIN branch_decisions
                              /\ e.source_handle # None
                              /\ e.source_handle # branch_decisions[e.source]))
        upstream_ids == [i \in DOMAIN incoming |-> incoming[i].source]
        having == SelectSeq(upstream_ids, LAMBDA uid : uid \in DOMAIN outputs)
        parts == [i \in DOMAIN having |-> outputs[having[i]]]
    IN IF Len(parts) = 1 THEN parts[1]
       ELSE JoinBlocks([i \in DOMAIN having |->
                          "[Input from " \o having[i] \o "]:\n" \o outputs[having[i]]])

\* _get_upstream_output
GetUpstreamOutput(node_id, edges, outputs) ==
    LET incoming == SelectSeq(edges, LAMBDA e : e.target = node_id)
        upstream_ids == [i \in DOMAIN incoming |-> incoming[i].source]
        having == SelectSeq(upstream_ids, LAMBDA uid : uid \in DOMAIN outputs)
        parts == [i \in DOMAIN having |-> outputs[having[i]]]
    IN IF Len(parts) = 1 THEN parts[1]
       ELSE JoinBlocks([i \in DOMAIN having |->
                          "[Input from " \o having[i] \o "]:\n" \o outputs[having[i]]])

\* _should_skip that does not look at skipped_nodes: an edge from a source
\* without a decision always counts as live
ShouldSkip_MutantCascade(node_id, edges, skipped, decisions) ==
    LET incoming == SelectSeq(edges, LAMBDA e : e.target = node_id)
        Runs_(edge) ==
            \/ edge.source \notin DOMAIN decisions
            \/ /\ edge.source \in DOMAIN decisions
               /\ \/ edge.source_handle = decisions[edge.source]
                  \/ edge.source_handle = None
    IN IF incoming = <<>> THEN FALSE
       ELSE ~ \E i \in DOMAIN incoming : Runs_(incoming[i])

\* _should_skip returning True as soon as one incoming edge is not live
ShouldSkip_Mutant(node_id, edges, skipped, decisions) ==
    LET incoming == SelectSeq(edges, LAMBDA e : e.target = node_id)
        Runs_(edge) ==
            \/ edge.source \notin DOMAIN decisions /\ edge.source \notin skipped
            \/ /\ edge.source \in DOMAIN decisions
               /\ \/ edge.source_handle = decisions[edge.source]
                  \/ edge.source_handle = None
    IN IF incoming = <<>> THEN FALSE
       ELSE \E i \in DOMAIN incoming : ~ Runs_(incoming[i])

\* ExecutionEngine._should_skip; decisions is self._branch_decisions
ShouldSkip(node_id, edges, skipped, decisions) ==
    LET incoming == SelectSeq(edges, LAMBDA e : e.target = node_id)
        Runs_(edge) ==
            \/ edge.source \notin DOMAIN decisions /\ edge.source \notin skipped
            \/ /\ edge.source \in DOMAIN decisions
               /\ \/ edge.source_handle = decisions[edge.source]
                  \/ edge.source_handle = None
    IN IF incoming = <<>> THEN FALSE
       ELSE ~ \E i \in DOMAIN incoming : Runs_(incoming[i])

\* the strings an injected condition_evaluator returns
Branches == {"true", "false"}

\* response.content of a provider that found nothing to say; a provider may
\* also answer with the text it was given
ProviderContents == {None}

\* answers of the default evaluator's provider, as tuples of characters
EvaluatorAnswers == {<<>>, <<"t", "r", "u", "e">>, <<" ", "T", "r", "u", "e", ".">>,
                     <<"f", "a", "l", "s", "e">>, <<"n", "o">>}

\* providers that do what they are asked to: the evaluator's model answers true
\* or false and nothing else, and every source can be loaded
Reliable ==
    [answers |-> {<<"t", "r", "u", "e">>, <<"f", "a", "l", "s", "e">>}, unloadable |-> {}]

\* str.strip()
RECURSIVE LStrip(_)
LStrip(s) == IF s # <<>> /\ Head(s) \in {" ", "\n"} THEN LStrip(Tail(s)) ELSE s

RECURSIVE RStrip(_)
RStrip(s) ==
    IF s # <<>> /\ s[Len(s)] \in {" ", "\n"} THEN RStrip(SubSeq(s, 1, Len(s) - 1)) ELSE s

Strip(s) == RStrip(LStrip(s))

\* str.lower()
Lower(s) ==
    [i \in DOMAIN s |-> CASE s[i] = "T" -> "t" [] s[i] = "R" -> "r" [] s[i] = "U" -> "u"
                          [] s[i] = "E" -> "e" [] s[i] = "F" -> "f" [] s[i] = "A" -> "a"
                          [] s[i] = "L" -> "l" [] s[i] = "S" -> "s" [] s[i] = "N" -> "n"
                          [] s[i] = "O" -> "o" [] OTHER -> s[i]]

\* str.startswith
StartsWith(s, prefix) == Len(s) >= Len(prefix) /\ SubSeq(s, 1, Len(prefix)) = prefix

\* the default evaluator comparing the answer as it came, without strip()
DefaultBranch_Mutant(answer) ==
    IF StartsWith(Lower(answer), <<"t", "r", "u", "e">>) THEN "true" ELSE "false"

\* the branch the default evaluator derives from the provider's answer
DefaultBranch(answer) ==
    IF StartsWith(Lower(Strip(answer)), <<"t", "r", "u", "e">>) THEN "true" ELSE "false"

\* compiled_nodes.get(node_id, {}) with the .get defaults the engine reads
CompiledOf(p, node_id) ==
    IF node_id \in DOMAIN p.compiled_nodes THEN p.compiled_nodes[node_id]
    ELSE CompiledNode(None, "unknown")

CurrentNode(r) == plan.execution_order[idx[r]]

Yield(r, ev) == events' = [events EXCEPT ![r] = Append(@, ev)]

\* a body that runs on without waiting for __anext__
Pull_Mutant(r) == UNCHANGED pulls

\* the consumer calls the generator's __anext__
Pull(r) == pulls' = [pulls EXCEPT ![r] = @ + 1]

\* node_output yielded without data=result
NodeSucceeds_Mutant(r, result) ==
    /\ node_outputs' = [node_outputs EXCEPT ![r] = (CurrentNode(r) :> result) @@ @]
    /\ Yield(r, ExecutionEvent("node_output", CurrentNode(r), plan.flow_id, None, ""))
    /\ pc' = [pc EXCEPT ![r] = "node_output"]

\* lines 97-104: record the result and yield node_output
NodeSucceeds(r, result) ==
    /\ node_outputs' = [node_outputs EXCEPT ![r] = (CurrentNode(r) :> result) @@ @]
    /\ Yield(r, ExecutionEvent("node_output", CurrentNode(r), plan.flow_id, result, ""))
    /\ pc' = [pc EXCEPT ![r] = "node_output"]

\* the except branch without its return: the loop goes on to the next node
NodeFails_Mutant(r, message) ==
    /\ Yield(r, ExecutionEvent("error", CurrentNode(r), plan.flow_id, None, message))
    /\ pc' = [pc EXCEPT ![r] = "node_complete"]
    /\ UNCHANGED node_outputs

\* the except branch dropping the outputs recorded so far
NodeFails_MutantRollback(r, message) ==
    /\ Yield(r, ExecutionEvent("error", CurrentNode(r), plan.flow_id, None, message))
    /\ pc' = [pc EXCEPT ![r] = "error"]
    /\ node_outputs' = [node_outputs EXCEPT ![r] = EmptyMap]

\* lines 107-115: the except branch yields the error event
NodeFails(r, message) ==
    /\ Yield(r, ExecutionEvent("error", CurrentNode(r), plan.flow_id, None, message))
    /\ pc' = [pc EXCEPT ![r] = "error"]
    /\ UNCHANGED node_outputs

\* _execute_conditional, line 223: store the decision in the engine's field
StoreDecision(r, branch) ==
    /\ branch_decisions' = (CurrentNode(r) :> branch) @@ branch_decisions
    /\ own_decisions' = [own_decisions EXCEPT ![r] = (CurrentNode(r) :> branch) @@ @]

\* history of the calls the invocation makes outside the engine: a provider or
\* evaluator call that begins (kind "agent", "evaluator", "load", "rag"), an
\* exception that reaches the try of execute (kind "raised", arg its message),
\* the content the evaluator's model answers (kind "answered") and the exception
\* of a source that cannot be loaded (kind "load_failed", arg the source);
\* delivered and pulls are the events handed over and the __anext__ requests
\* made at that moment
CallRecord(r, kind, arg, npulls) ==
    [kind |-> kind, node |-> CurrentNode(r), arg |-> arg,
     delivered |-> Len(events[r]), pulls |-> npulls]

Record(r, records) == calls' = [calls EXCEPT ![r] = @ \o records]

\* flow_complete carrying the output of the last node that recorded one
FinalData_Mutant(order, outputs) ==
    LET having == SelectSeq(order, LAMBDA id : id \in DOMAIN outputs)
    IN IF having # <<>> THEN outputs[having[Len(having)]] ELSE ""

\* line 120: node_outputs.get(execution_order[-1], "") if execution_order else ""
FinalData(order, outputs) ==
    IF order # <<>>
    THEN IF order[Len(order)] \in DOMAIN outputs THEN outputs[order[Len(order)]] ELSE ""
    ELSE ""

\* the user_input arguments explored: the empty text, and a text where the plan
\* has an input node to read it
UserInputs ==
    {""} \cup {u \in {"X"} : \E id \in DOMAIN plan.compiled_nodes :
                                plan.compiled_nodes[id].node_type = "input"}

\* engine.execute(plan, user_input): creates the async generator, runs no code
Execute(r) ==
    /\ pc[r] = "idle"
    /\ \E u \in UserInputs : user_input' = [user_input EXCEPT ![r] = u]
    /\ pc' = [pc EXCEPT ![r] = "created"]
    /\ UNCHANGED <<websocket, provider, retry, flow, compile_result, plan,
                   condition_evaluator, branch_decisions, idx,
                   node_outputs, skipped_nodes, events, pulls, calls, own_decisions>>

\* flow_start yielded without flow_id=flow_id
PullFirst_Mutant(r) ==
    /\ pc[r] = "created"
    /\ Pull(r)
    /\ node_outputs' = [node_outputs EXCEPT ![r] = EmptyMap]
    /\ branch_decisions' = EmptyMap
    /\ skipped_nodes' = [skipped_nodes EXCEPT ![r] = {}]
    /\ Yield(r, ExecutionEvent("flow_start", None, None, None, ""))
    /\ pc' = [pc EXCEPT ![r] = "flow_start"]
    /\ UNCHANGED <<websocket, provider, retry, flow, compile_result, plan,
                   condition_evaluator, user_input, idx, calls,
                   own_decisions>>

\* execute keeping the branch decisions of the invocation before
PullFirst_MutantKeep(r) ==
    /\ pc[r] = "created"
    /\ Pull(r)
    /\ node_outputs' = [node_outputs EXCEPT ![r] = EmptyMap]
    /\ skipped_nodes' = [skipped_nodes EXCEPT ![r] = {}]
    /\ Yield(r, ExecutionEvent("flow_start", None, plan.flow_id, None, ""))
    /\ pc' = [pc EXCEPT ![r] = "flow_start"]
    /\ UNCHANGED <<websocket, provider, retry, flow, compile_result, plan,
                   condition_evaluator, user_input, idx, calls,
                   own_decisions, branch_decisions>>

\* first __anext__: lines 70-79, up to the yield of flow_start
PullFirst(r) ==
    /\ pc[r] = "created"
    /\ Pull(r)
    /\ node_outputs' = [node_outputs EXCEPT ![r] = EmptyMap]
    /\ branch_decisions' = EmptyMap
    /\ skipped_nodes' = [skipped_nodes EXCEPT ![r] = {}]
    /\ Yield(r, ExecutionEvent("flow_start", None, plan.flow_id, None, ""))
    /\ pc' = [pc EXCEPT ![r] = "flow_start"]
    /\ UNCHANGED <<websocket, provider, retry, flow, compile_result, plan,
                   condition_evaluator, user_input, idx, calls,
                   own_decisions>>

\* the skip branch without its continue: the skipped node goes on to execute
PullLoop_Mutant(r) ==
    /\ pc[r] \in {"flow_start", "node_skipped", "node_complete"}
    /\ Pull(r)
    /\ LET i == IF pc[r] = "flow_start" THEN 1 ELSE idx[r] + 1
           order == plan.execution_order
       IN /\ idx' = [idx EXCEPT ![r] = i]
          /\ IF i > Len(order)
             THEN /\ Yield(r, ExecutionEvent("flow_complete", None, plan.flow_id,
                                             FinalData(order, node_outputs[r]), ""))
                  /\ pc' = [pc EXCEPT ![r] = "flow_complete"]
                  /\ UNCHANGED skipped_nodes
             ELSE IF ShouldSkip(order[i], plan.edges, skipped_nodes[r], branch_decisions)
                  THEN /\ skipped_nodes' = [skipped_nodes EXCEPT ![r] = @ \cup {order[i]}]
                       /\ Yield(r, ExecutionEvent("node_skipped", order[i], plan.flow_id,
                                                  None, ""))
                       /\ pc' = [pc EXCEPT ![r] = "node_start"]
                  ELSE /\ Yield(r, ExecutionEvent("node_start", order[i], plan.flow_id,
                                                  None, ""))
                       /\ pc' = [pc EXCEPT ![r] = "node_start"]
                       /\ UNCHANGED skipped_nodes
    /\ UNCHANGED <<websocket, provider, retry, flow, compile_result, plan,
                   condition_evaluator, branch_decisions,
                   user_input, node_outputs, calls, own_decisions>>

\* __anext__ at the head of the for loop: lines 81-91 for the next node, or
\* lines 117-121 when execution_order is exhausted
PullLoop(r) ==
    /\ pc[r] \in {"flow_start", "node_skipped", "node_complete"}
    /\ Pull(r)
    /\ LET i == IF pc[r] = "flow_start" THEN 1 ELSE idx[r] + 1
           order == plan.execution_order
       IN /\ idx' = [idx EXCEPT ![r] = i]
          /\ IF i > Len(order)
             THEN /\ Yield(r, ExecutionEvent("flow_complete", None, plan.flow_id,
                                             FinalData(order, node_outputs[r]), ""))
                  /\ pc' = [pc EXCEPT ![r] = "flow_complete"]
                  /\ UNCHANGED skipped_nodes
             ELSE IF ShouldSkip(order[i], plan.edges, skipped_nodes[r], branch_decisions)
                  THEN /\ skipped_nodes' = [skipped_nodes EXCEPT ![r] = @ \cup {order[i]}]
                       /\ Yield(r, ExecutionEvent("node_skipped", order[i], plan.flow_id,
                                                  None, ""))
                       /\ pc' = [pc EXCEPT ![r] = "node_skipped"]
                  ELSE /\ Yield(r, ExecutionEvent("node_start", order[i], plan.flow_id,
                                                  None, ""))
                       /\ pc' = [pc EXCEPT ![r] = "node_start"]
                       /\ UNCHANGED skipped_nodes
    /\ UNCHANGED <<websocket, provider, retry, flow, compile_result, plan,
                   condition_evaluator, branch_decisions,
                   user_input, node_outputs, calls, own_decisions>>

\* the input node ignoring the runtime input
InputResult_Mutant(input, compiled) == compiled.value

\* _execute_node, lines 170-171: user_input or compiled.get("value", "")
InputResult(input, compiled) == IF input # "" THEN input ELSE compiled.value

\* the placeholder without the recorded knowledge_error
KnowledgeUnavailable_Mutant(compiled) ==
    "[Knowledge Base unavailable: Knowledge base not configured]"

\* _execute_knowledge_base, lines 236-239: the placeholder returned when no
\* knowledge was compiled
KnowledgeUnavailable(compiled) ==
    "[Knowledge Base unavailable: " \o
        (IF compiled.knowledge_error # None THEN compiled.knowledge_error
         ELSE "Knowledge base not configured") \o "]"

\* __anext__ after node_start: _execute_node up to its first await, or to the
\* next yield when the node needs no provider
PullExecute(r) ==
    /\ pc[r] = "node_start"
    /\ Pull(r)
    /\ LET node_id == CurrentNode(r)
           compiled == CompiledOf(plan, node_id)
           node_type == compiled.node_type
           upstream == GetUpstreamOutput(node_id, plan.edges, node_outputs[r])
           Call(kind, arg) == CallRecord(r, kind, arg, pulls[r] + 1)
       IN CASE node_type = "input" ->
                 /\ NodeSucceeds(r, InputResult(user_input[r], compiled))
                 /\ UNCHANGED <<branch_decisions, own_decisions, calls>>
            [] node_type = "output" ->
                 /\ NodeSucceeds(r, upstream)
                 /\ UNCHANGED <<branch_decisions, own_decisions, calls>>
            [] node_type \in {"agent", "web_search"} ->
                 IF compiled.agent = None
                 THEN LET message == "Node '" \o node_id \o "' has no compiled agent" IN
                      /\ Record(r, <<Call("raised", message)>>)
                      /\ NodeFails(r, message)
                      /\ UNCHANGED <<branch_decisions, own_decisions>>
                 ELSE /\ Record(r, <<Call("agent", upstream)>>)
                      /\ pc' = [pc EXCEPT ![r] = "in_provider"]
                      /\ UNCHANGED <<branch_decisions, own_decisions, node_outputs, events>>
            [] node_type = "conditional" ->
                 IF condition_evaluator
                 THEN \/ /\ Record(r, <<Call("evaluator", upstream)>>)
                         /\ \E branch \in Branches : StoreDecision(r, branch)
                         /\ NodeSucceeds(r, upstream)
                      \/ /\ Record(r, <<Call("evaluator", upstream),
                                        Call("raised", "evaluator failed")>>)
                         /\ NodeFails(r, "evaluator failed")
                         /\ UNCHANGED <<branch_decisions, own_decisions>>
                 ELSE /\ Record(r, <<Call("evaluator", upstream)>>)
                      /\ pc' = [pc EXCEPT ![r] = "in_evaluator"]
                      /\ UNCHANGED <<branch_decisions, own_decisions, node_outputs, events>>
            [] node_type = "knowledge_base" ->
                 IF compiled.knowledge = None
                 THEN /\ NodeSucceeds(r, KnowledgeUnavailable(compiled))
                      /\ UNCHANGED <<branch_decisions, own_decisions, calls>>
                 ELSE /\ pc' = [pc EXCEPT ![r] =
                                  IF compiled.sources # <<>> THEN "in_kb_load"
                                  ELSE "in_kb_query"]
                      /\ Record(r, <<IF compiled.sources # <<>>
                                     THEN Call("load", compiled.sources[1])
                                     ELSE Call("rag", upstream)>>)
                      /\ UNCHANGED <<branch_decisions, own_decisions, node_outputs, events>>
            [] OTHER ->
                 /\ NodeSucceeds(r, "[Unhandled node type: " \o node_type \o "]")
                 /\ UNCHANGED <<branch_decisions, own_decisions, calls>>
    /\ UNCHANGED <<websocket, provider, retry, flow, compile_result, plan,
                   condition_evaluator, user_input, idx,
                   skipped_nodes>>

\* the latest call begun, the one the invocation is awaiting
LastCall(r) == calls[r][Len(calls[r])]

\* the awaited agent.arun / rag_agent.arun returns: response.content or ""
ProviderReturns(r) ==
    /\ pc[r] \in {"in_provider", "in_kb_query"}
    /\ \E content \in ProviderContents \cup {LastCall(r).arg} :
          NodeSucceeds(r, IF content = None THEN "" ELSE content)
    /\ UNCHANGED <<websocket, provider, retry, flow, compile_result, plan,
                   condition_evaluator, branch_decisions,
                   user_input, idx, skipped_nodes, pulls, calls, own_decisions>>

\* an engine that repeats a provider call once when it raises
ProviderRaises_Mutant(r) ==
    /\ pc[r] \in {"in_provider", "in_kb_query", "in_evaluator"}
    /\ IF Cardinality({k \in DOMAIN calls[r] : /\ calls[r][k].node = CurrentNode(r)
                                              /\ calls[r][k].kind = LastCall(r).kind}) = 1
       THEN /\ Record(r, <<CallRecord(r, LastCall(r).kind, LastCall(r).arg, pulls[r])>>)
            /\ UNCHANGED <<pc, events, node_outputs>>
       ELSE /\ Record(r, <<CallRecord(r, "raised", "provider failed", pulls[r])>>)
            /\ NodeFails(r, "provider failed")
    /\ UNCHANGED <<websocket, provider, retry, flow, compile_result, plan,
                   condition_evaluator, branch_decisions,
                   user_input, idx, skipped_nodes, pulls, own_decisions>>

\* the awaited provider call raises
ProviderRaises(r) ==
    /\ pc[r] \in {"in_provider", "in_kb_query", "in_evaluator"}
    /\ Record(r, <<CallRecord(r, "raised", "provider failed", pulls[r])>>)
    /\ NodeFails(r, "provider failed")
    /\ UNCHANGED <<websocket, provider, retry, flow, compile_result, plan,
                   condition_evaluator, branch_decisions,
                   user_input, idx, skipped_nodes, pulls, own_decisions>>

\* _execute_conditional returning the branch it stored
EvaluatorReturns_Mutant(r) ==
    /\ pc[r] = "in_evaluator"
    /\ \E answer \in provider.answers :
          /\ StoreDecision(r, DefaultBranch(answer))
          /\ Record(r, <<CallRecord(r, "answered", answer, pulls[r])>>)
          /\ NodeSucceeds(r, DefaultBranch(answer))
    /\ UNCHANGED <<websocket, provider, retry, flow, compile_result, plan,
                   condition_evaluator, user_input, idx, skipped_nodes, pulls>>

\* the awaited evaluator.arun of the default evaluator returns (lines 219-224)
EvaluatorReturns(r) ==
    /\ pc[r] = "in_evaluator"
    /\ \E answer \in provider.answers :
          /\ StoreDecision(r, DefaultBranch(answer))
          /\ Record(r, <<CallRecord(r, "answered", answer, pulls[r])>>)
    /\ NodeSucceeds(r, LastCall(r).arg)
    /\ UNCHANGED <<websocket, provider, retry, flow, compile_result, plan,
                   condition_evaluator, user_input, idx, skipped_nodes, pulls>>

\* a knowledge_base node that gives up at the first source it cannot load
KnowledgeLoads_Mutant(r) ==
    /\ pc[r] = "in_kb_load"
    /\ LET compiled == CompiledOf(plan, CurrentNode(r))
           k == Cardinality({i \in DOMAIN calls[r] :
                               calls[r][i].kind = "load" /\ calls[r][i].node = CurrentNode(r)})
       IN IF compiled.sources[k] \in provider.unloadable
          THEN /\ Record(r, <<CallRecord(r, "load_failed", compiled.sources[k], pulls[r]),
                              CallRecord(r, "raised", "load failed", pulls[r])>>)
               /\ NodeFails(r, "load failed")
          ELSE IF k < Len(compiled.sources)
          THEN /\ Record(r, <<CallRecord(r, "load", compiled.sources[k + 1], pulls[r])>>)
               /\ UNCHANGED <<pc, events, node_outputs>>
          ELSE /\ Record(r, <<CallRecord(r, "rag",
                                GetUpstreamOutput(CurrentNode(r), plan.edges,
                                                  node_outputs[r]),
                                pulls[r])>>)
               /\ pc' = [pc EXCEPT ![r] = "in_kb_query"]
               /\ UNCHANGED <<events, node_outputs>>
    /\ UNCHANGED <<websocket, provider, retry, flow, compile_result, plan,
                   condition_evaluator, branch_decisions, user_input, idx, skipped_nodes,
                   pulls, own_decisions>>

\* one awaited knowledge.add_content_async attempt ends, loaded or with an
\* exception that is logged (lines 248-263); after the last source the query
\* is issued (lines 273-293)
KnowledgeLoads(r) ==
    /\ pc[r] = "in_kb_load"
    /\ LET compiled == CompiledOf(plan, CurrentNode(r))
           k == Cardinality({i \in DOMAIN calls[r] :
                               calls[r][i].kind = "load" /\ calls[r][i].node = CurrentNode(r)})
           failed == IF compiled.sources[k] \in provider.unloadable
                     THEN <<CallRecord(r, "load_failed", compiled.sources[k], pulls[r])>>
                     ELSE <<>>
       IN IF k < Len(compiled.sources)
          THEN /\ Record(r, failed \o
                            <<CallRecord(r, "load", compiled.sources[k + 1], pulls[r])>>)
               /\ UNCHANGED pc
          ELSE /\ Record(r, failed \o
                            <<CallRecord(r, "rag",
                                GetUpstreamOutput(CurrentNode(r), plan.edges,
                                                  node_outputs[r]),
                                pulls[r])>>)
               /\ pc' = [pc EXCEPT ![r] = "in_kb_query"]
    /\ UNCHANGED <<websocket, provider, retry, flow, compile_result, plan,
                   condition_evaluator, branch_decisions,
                   user_input, idx, node_outputs, skipped_nodes, events, pulls,
                   own_decisions>>

\* __anext__ after node_output: line 105
PullComplete(r) ==
    /\ pc[r] = "node_output"
    /\ Pull(r)
    /\ Yield(r, ExecutionEvent("node_complete", CurrentNode(r), plan.flow_id, None, ""))
    /\ pc' = [pc EXCEPT ![r] = "node_complete"]
    /\ UNCHANGED <<websocket, provider, retry, flow, compile_result, plan,
                   condition_evaluator, branch_decisions,
                   user_input, idx, node_outputs, skipped_nodes, calls, own_decisions>>

\* a generator that yields flow_complete once more before it finishes
PullEnd_Mutant(r) ==
    /\ pc[r] \in {"error", "flow_complete"}
    /\ Pull(r)
    /\ Yield(r, ExecutionEvent("flow_complete", None, plan.flow_id, "", ""))
    /\ pc' = [pc EXCEPT ![r] = "closed"]
    /\ UNCHANGED <<websocket, provider, retry, flow, compile_result, plan,
                   condition_evaluator, branch_decisions,
                   user_input, idx, node_outputs, skipped_nodes, calls, own_decisions>>

\* __anext__ after error (return, line 115) or after flow_complete (end of the
\* body): the generator finishes without another event
PullEnd(r) ==
    /\ pc[r] \in {"error", "flow_complete"}
    /\ Pull(r)
    /\ pc' = [pc EXCEPT ![r] = "closed"]
    /\ UNCHANGED <<websocket, provider, retry, flow, compile_result, plan,
                   condition_evaluator, branch_decisions,
                   user_input, idx, node_outputs, skipped_nodes, events, calls,
                   own_decisions>>

EngineStep(r) ==
    \/ Execute(r)
    \/ PullFirst(r)
    \/ PullLoop(r)
    \/ PullExecute(r)
    \/ ProviderReturns(r)
    \/ ProviderRaises(r)
    \/ EvaluatorReturns(r)
    \/ KnowledgeLoads(r)
    \/ PullComplete(r)
    \/ PullEnd(r)

EngineIdle ==
    /\ branch_decisions = EmptyMap
    /\ pc = [r \in Runs |-> "idle"]
    /\ user_input = [r \in Runs |-> ""]
    /\ idx = [r \in Runs |-> 0]
    /\ node_outputs = [r \in Runs |-> EmptyMap]
    /\ skipped_nodes = [r \in Runs |-> {}]
    /\ events = [r \in Runs |-> <<>>]
    /\ pulls = [r \in Runs |-> 0]
    /\ calls = [r \in Runs |-> <<>>]
    /\ own_decisions = [r \in Runs |-> EmptyMap]

(***************************************************************************)
(* app/api/websocket.py                                                    *)
(***************************************************************************)
\* no connection is served
NotConnected == [pc |-> "none"]

MaxMessages == 2       \* messages the client sends over the connection

\* the connection after manager.connect (line 60): the handler awaits
\* receive_text (pc "receive"), is inside the async for of _handle_execute (pc
\* "streaming") or has left its loop (pc "ended").  open says whether the client
\* is still there; received and sent are the messages so far, each message sent
\* with the number of the received message it answers; runs lists, for each
\* engine invocation, the number of the message that began it, and taken counts
\* the events of the latest invocation handed to send_json
Connected ==
    [pc |-> "receive", open |-> TRUE, received |-> <<>>, sent |-> <<>>, runs |-> <<>>,
     taken |-> 0]

\* a text the client sends: not JSON (action "not_json"), or a JSON object with
\* its action; the flow payload of an execute message is missing, is no
\* FlowDefinition ("invalid") or is the flow given
ClientMessage(action, payload, f) == [action |-> action, payload |-> payload, flow |-> f]

\* {"type": "error", "message": ...}
ErrorMessage(message) == [type |-> "error", message |-> message]

\* the messages sent so far in answer to received message k
SentFor(k) == SelectSeq(websocket.sent, LAMBDA s : s.message = k)

\* the engine invocation the handler is consuming, or consumed last
CurrentRun == Len(websocket.runs)

\* await manager.send_json outside any try: the message is sent, or the client
\* has gone and the exception ends the handler
Reply(ws, k, body) ==
    \/ websocket' = [ws EXCEPT !.sent = Append(@, [message |-> k, body |-> body])]
    \/ websocket' = [ws EXCEPT !.open = FALSE, !.pc = "ended"]

\* _handle_execute that goes on to the engine after a compilation error, with
\* the plan compiled before or none
HandleExecute_Mutant(ws, k, m) ==
    IF m.payload = "missing"
    THEN /\ Reply(ws, k, ErrorMessage("Missing 'flow' payload"))
         /\ UNCHANGED <<flow, compile_result, engine_vars>>
    ELSE IF m.payload = "invalid"
    THEN /\ Reply(ws, k, ErrorMessage("Invalid flow"))
         /\ UNCHANGED <<flow, compile_result, engine_vars>>
    ELSE LET result == Compile(m.flow, TRUE) IN
         /\ flow' = m.flow
         /\ compile_result' = result
         /\ Len(ws.runs) < Cardinality(Runs)
         /\ websocket' =
               [ws EXCEPT !.pc = "streaming", !.runs = Append(@, k), !.taken = 0,
                          !.sent = IF result.status # "ok"
                                   THEN Append(@, [message |-> k, body |->
                                           ErrorMessage("Compilation failed: "
                                                           \o result.status)])
                                   ELSE @]
         /\ plan' = IF result.status = "ok" THEN result.plan ELSE plan
         /\ UNCHANGED <<condition_evaluator, branch_decisions, pc, user_input, idx,
                        node_outputs, skipped_nodes, events, pulls, calls,
                        own_decisions>>

\* _handle_execute, lines 85-102, and the call engine.execute of line 104 that
\* a compiled flow leads to
HandleExecute(ws, k, m) ==
    IF m.payload = "missing"
    THEN /\ Reply(ws, k, ErrorMessage("Missing 'flow' payload"))
         /\ UNCHANGED <<flow, compile_result, engine_vars>>
    ELSE IF m.payload = "invalid"
    THEN /\ Reply(ws, k, ErrorMessage("Invalid flow"))
         /\ UNCHANGED <<flow, compile_result, engine_vars>>
    ELSE LET result == Compile(m.flow, TRUE) IN
         /\ flow' = m.flow
         /\ compile_result' = result
         /\ IF result.status # "ok"
            THEN /\ Reply(ws, k, ErrorMessage("Compilation failed: " \o result.status))
                 /\ UNCHANGED engine_vars
            ELSE /\ Len(ws.runs) < Cardinality(Runs)
                 /\ websocket' =
                       [ws EXCEPT !.pc = "streaming", !.runs = Append(@, k), !.taken = 0]
                 /\ plan' = result.plan
                 /\ UNCHANGED <<condition_evaluator, branch_decisions, pc, user_input,
                                idx, node_outputs, skipped_nodes, events, pulls, calls,
                                own_decisions>>

\* execution_websocket, lines 63-77: one message is received and handled up to
\* the next await of the loop
Receive(m) ==
    /\ websocket.pc = "receive"
    /\ websocket.open
    /\ Len(websocket.received) < MaxMessages
    /\ LET k == Len(websocket.received) + 1
           ws == [websocket EXCEPT !.received = Append(@, m)]
       IN CASE m.action = "execute" -> HandleExecute(ws, k, m)
            [] m.action = "not_json" ->
                 /\ Reply(ws, k, ErrorMessage("Invalid JSON"))
                 /\ UNCHANGED <<flow, compile_result, engine_vars>>
            [] m.action = "ping" ->
                 /\ Reply(ws, k, [type |-> "pong"])
                 /\ UNCHANGED <<flow, compile_result, engine_vars>>
            [] OTHER ->
                 /\ Reply(ws, k, ErrorMessage("Unknown action: " \o m.action))
                 /\ UNCHANGED <<flow, compile_result, engine_vars>>
    /\ UNCHANGED <<provider, retry>>

\* the generator of the invocation runs: on the handler's __anext__, which it
\* makes when it has handed every event so far to send_json, or while an
\* awaited provider call of that __anext__ ends
EngineTurn ==
    /\ websocket.pc = "streaming"
    /\ EngineStep(CurrentRun)
    /\ pulls'[CurrentRun] # pulls[CurrentRun] =>
          Len(events[CurrentRun]) = websocket.taken

\* the except branch of line 107 without its return: the handler logs the
\* failure and goes on with the next event
SendFails_Mutant(r) ==
    /\ websocket' = [websocket EXCEPT !.taken = @ + 1]
    /\ UNCHANGED pc

\* lines 107-109: send_json raised; the handler returns to the loop of
\* execution_websocket, and the generator it leaves behind suspended at its
\* yield is never resumed
SendFails(r) ==
    /\ websocket' = [websocket EXCEPT !.taken = @ + 1, !.pc = "receive"]
    /\ pc' = [pc EXCEPT ![r] = "abandoned"]

\* lines 105-106: the event the generator yielded is sent to the client, or
\* send_json raises, as it does when the client has gone
SendEvent ==
    /\ websocket.pc = "streaming"
    /\ Len(events[CurrentRun]) > websocket.taken
    /\ \/ /\ websocket.open
          /\ websocket' =
                [websocket EXCEPT
                    !.taken = @ + 1,
                    !.sent = Append(@, [message |-> websocket.runs[CurrentRun],
                                        body |-> events[CurrentRun][websocket.taken + 1]])]
          /\ UNCHANGED pc
       \/ SendFails(CurrentRun)
    /\ UNCHANGED <<provider, retry, flow, compile_result, plan, condition_evaluator,
                   branch_decisions, user_input, idx, node_outputs, skipped_nodes,
                   events, pulls, calls, own_decisions>>

\* the generator has finished: the async for ends and _handle_execute returns
StreamEnds ==
    /\ websocket.pc = "streaming"
    /\ pc[CurrentRun] = "closed"
    /\ websocket' = [websocket EXCEPT !.pc = "receive"]
    /\ UNCHANGED <<provider, retry, flow, compile_result, engine_vars>>

\* the client closes the connection
ClientCloses ==
    /\ websocket.pc \in {"receive", "streaming"}
    /\ websocket.open
    /\ websocket' = [websocket EXCEPT !.open = FALSE]
    /\ UNCHANGED <<provider, retry, flow, compile_result, engine_vars>>

\* lines 79-80: receive_text raises WebSocketDisconnect and the handler ends
Disconnected ==
    /\ websocket.pc = "receive"
    /\ ~ websocket.open
    /\ websocket' = [websocket EXCEPT !.pc = "ended"]
    /\ UNCHANGED <<provider, retry, flow, compile_result, engine_vars>>

(***************************************************************************)
(* app/utils/retry.py                                                      *)
(***************************************************************************)
MaxAttempts == 4       \* largest max_attempts a function is wrapped with

\* delays are whole numbers of tenths of a second, none negative
BaseDelays == {0, 1, 3}

MaxDelays == {0, 2, 5, 10}

\* 2 ** n
RECURSIVE Pow2(_)
Pow2(n) == IF n <= 0 THEN 1 ELSE 2 * Pow2(n - 1)

Min(a, b) == IF a <= b THEN a ELSE b

\* the delay growing by base_delay with every attempt and never capped
BackoffDelay_Mutant(attempt, base_delay, max_delay) == base_delay * attempt

\* line 53: min(base_delay * (2 ** (attempt - 1)), max_delay)
BackoffDelay(attempt, base_delay, max_delay) ==
    Min(base_delay * Pow2(attempt - 1), max_delay)

\* the comparison of line 46 never true: the wrapper waits after every failure
LastAttempt_Mutant(attempt, max_attempts) == FALSE

\* line 46: attempt == max_attempts
LastAttempt(attempt, max_attempts) == attempt = max_attempts

\* the state of no decorated function
NotWrapped ==
    [pc |-> "none", max_attempts |-> 0, base_delay |-> 0, max_delay |-> 0, attempt |-> 0,
     func_calls |-> <<>>, sleeps |-> <<>>, result |-> None]

\* retry_with_backoff(max_attempts, base_delay, max_delay)(func): the wrapper,
\* not yet called
Wrapped(max_attempts, base_delay, max_delay) ==
    [NotWrapped EXCEPT !.pc = "wrapped", !.max_attempts = max_attempts,
                       !.base_delay = base_delay, !.max_delay = max_delay]

\* the for loop takes its next attempt and awaits func (lines 42-44), or is
\* exhausted and line 63 raises
NextAttempt(w) ==
    IF w.attempt + 1 > w.max_attempts
    THEN [w EXCEPT !.pc = "raised", !.result = <<"RuntimeError", "Retry logic error">>]
    ELSE [w EXCEPT !.pc = "in_func", !.attempt = @ + 1,
                   !.func_calls = Append(@, "pending")]

\* await wrapper(*args, **kwargs)
WrapperCalled ==
    /\ retry.pc = "wrapped"
    /\ retry' = NextAttempt(retry)
    /\ UNCHANGED <<websocket, provider, flow, compile_result, engine_vars>>

\* the awaited func returns: line 44 returns its result
FuncReturns ==
    /\ retry.pc = "in_func"
    /\ retry' = [retry EXCEPT !.pc = "returned",
                              !.func_calls[retry.attempt] = "returned",
                              !.result = <<"result", retry.attempt>>]
    /\ UNCHANGED <<websocket, provider, flow, compile_result, engine_vars>>

\* the awaited func raises an exception that is not among exceptions: it
\* leaves the wrapper
FuncRaisesOther ==
    /\ retry.pc = "in_func"
    /\ retry' = [retry EXCEPT !.pc = "raised",
                              !.func_calls[retry.attempt] = "other",
                              !.result = <<"other", retry.attempt>>]
    /\ UNCHANGED <<websocket, provider, flow, compile_result, engine_vars>>

\* the awaited func raises one of exceptions (lines 45-60): re-raised at the
\* last attempt, otherwise the wrapper sleeps
FuncRaises ==
    /\ retry.pc = "in_func"
    /\ LET failed == [retry EXCEPT !.func_calls[retry.attempt] = "listed"] IN
       retry' = IF LastAttempt(retry.attempt, retry.max_attempts)
                THEN [failed EXCEPT !.pc = "raised",
                                    !.result = <<"listed", retry.attempt>>]
                ELSE [failed EXCEPT !.pc = "sleeping",
                                    !.sleeps = Append(@,
                                       [after |-> retry.attempt,
                                        delay |-> BackoffDelay(retry.attempt,
                                                               retry.base_delay,
                                                               retry.max_delay)])]
    /\ UNCHANGED <<websocket, provider, flow, compile_result, engine_vars>>

\* asyncio.sleep(delay) returns and the loop goes on
SleepEnds ==
    /\ retry.pc = "sleeping"
    /\ retry' = NextAttempt(retry)
    /\ UNCHANGED <<websocket, provider, flow, compile_result, engine_vars>>

(***************************************************************************)
(* The flows explored                                                      *)
(***************************************************************************)
EdgeIds == <<"e1", "e2", "e3", "e4", "e5", "e6">>

\* node lists whose ids are introduced in the order of NodeIds; an id may repeat
NodeIdLists ==
    {ids \in SeqsUpTo(Range(NodeIds), Len(NodeIds)) :
        \A i \in DOMAIN ids : \E k \in 1..Len(NodeIds) :
            /\ ids[i] = NodeIds[k]
            /\ \A m \in 1..(k - 1) : \E j \in 1..(i - 1) : ids[j] = NodeIds[m]}

\* the node kinds of the flows that are only compiled
CompileKinds == {<<"input", NoConfig>>, <<"agent", SomeConfig>>, <<"agent", NoConfig>>,
                 <<"team", NoConfig>>, <<"knowledge_base", NoConfig>>, <<"tool", NoConfig>>}

\* kind lists in which at most one node is not a plain input node
CompileKindLists ==
    {kinds \in SeqsUpTo(CompileKinds, Len(NodeIds)) :
        Cardinality({i \in DOMAIN kinds : kinds[i] # <<"input", NoConfig>>}) <= 1}

EdgeEndLists == SeqsUpTo(Range(NodeIds) \X Range(NodeIds), MaxEdges)

CompileFlow(ids, kinds, ends) ==
    FlowDefinition([i \in DOMAIN ids |-> FlowNode(ids[i], kinds[i][1], kinds[i][2])],
                   [i \in DOMAIN ends |-> FlowEdge(EdgeIds[i], ends[i][1], None, ends[i][2])])

\* the caller compiles the flow: FlowCompiler.compile
CompileTheFlow ==
    /\ compile_result.status = "none"
    /\ \E kb \in BOOLEAN : compile_result' = Compile(flow, kb)
    /\ UNCHANGED <<websocket, provider, retry, flow, engine_vars>>

InitCompile ==
    /\ \E ids \in NodeIdLists, kinds \in CompileKindLists, ends \in EdgeEndLists :
          /\ Len(ids) = Len(kinds)
          /\ Cardinality(Range(ids)) < Len(ids) => Range(kinds) \subseteq {<<"input", NoConfig>>}
          /\ flow = CompileFlow(ids, kinds, ends)
    /\ compile_result = NotCompiled
    /\ plan = NoPlan
    /\ condition_evaluator = FALSE
    /\ EngineIdle
    /\ retry = NotWrapped
    /\ provider = Reliable
    /\ websocket = NotConnected

NextCompile == CompileTheFlow

SpecCompile == InitCompile /\ [][NextCompile]_vars

\* the node types of the flows that are executed
RunTypes == {"input", "agent", "conditional", "output"}

Handles == {None, "true", "false"}

\* the candidate edges of a flow with the node types given: each leads from an
\* earlier to a later declared node; an edge leaving a conditional node may name
\* a handle
RunEdgeCandidates(types) ==
    LET all == <<
          <<1, 2, None>>, <<1, 2, "true">>, <<1, 2, "false">>,
          <<2, 3, None>>, <<2, 3, "true">>, <<2, 3, "false">>,
          <<1, 3, None>>, <<1, 3, "true">>, <<1, 3, "false">> >>
    IN SelectSeq(all, LAMBDA c : /\ c[2] <= Len(types)
                                 /\ (c[3] # None => types[c[1]] = "conditional"))

\* the elements of s at the positions in I, in the order of s
RECURSIVE SubList(_, _)
SubList(s, I) ==
    IF s = <<>> THEN <<>>
    ELSE LET rest == SubList(SubSeq(s, 1, Len(s) - 1), I)
         IN IF Len(s) \in I THEN Append(rest, s[Len(s)]) ELSE rest

Reverse(s) == [i \in DOMAIN s |-> s[Len(s) + 1 - i]]

\* edge lists of at most MaxEdges candidates in the candidates' order, and
\* those of two edges in the reverse order as well
RunEdgeLists(types) ==
    LET cands == RunEdgeCandidates(types)
        picks == {I \in SUBSET DOMAIN cands : Cardinality(I) <= MaxEdges}
    IN {SubList(cands, I) : I \in picks}
          \cup {Reverse(SubList(cands, I)) : I \in {J \in picks : Cardinality(J) = 2}}

\* further node types, of which a flow that is executed holds at most one node:
\* a type with a compiler the engine has a branch for, and one without either
RareRunTypes == {"knowledge_base", "team"}

RunTypeLists ==
    UNION {{types \in [1..k -> RunTypes \cup RareRunTypes] :
               Cardinality({i \in 1..k : types[i] \in RareRunTypes}) <= 1} :
           k \in 1..Len(NodeIds)}

RunFlow(types, ends) ==
    FlowDefinition(
        [i \in DOMAIN types |->
            FlowNode(NodeIds[i], types[i],
                     IF types[i] = "knowledge_base" THEN SourcesConfig ELSE SomeConfig)],
        [i \in DOMAIN ends |->
            FlowEdge(EdgeIds[i], NodeIds[ends[i][1]], ends[i][3], NodeIds[ends[i][2]])])

\* the same flow with bare configurations: a knowledge base without sources and
\* input nodes without input_output configuration
BareFlow(types, ends) ==
    LET f == RunFlow(types, ends) IN
    [f EXCEPT !.nodes =
        [i \in DOMAIN f.nodes |->
            [f.nodes[i] EXCEPT !.config =
                CASE types[i] = "knowledge_base" -> SomeConfig
                  [] types[i] = "input" -> NoConfig
                  [] OTHER -> @]]]

\* a plan assembled by hand from a compiled one: agent entries without an agent
WithoutAgents(p) ==
    [p EXCEPT !.compiled_nodes =
        [id \in DOMAIN p.compiled_nodes |-> [p.compiled_nodes[id] EXCEPT !.agent = None]]]

\* the plan {"flow_id": ..., "execution_order": []}
EmptyPlan == [NoPlan EXCEPT !.flow_id = "flow-0"]

InitRun ==
    /\ \/ /\ \E types \in RunTypeLists : \E ends \in RunEdgeLists(types) :
                \/ flow = RunFlow(types, ends)
                \/ /\ Len(ends) <= 1
                   /\ \E i \in DOMAIN types : types[i] \in {"input", "knowledge_base"}
                   /\ flow = BareFlow(types, ends)
          /\ \E kb \in BOOLEAN : compile_result = Compile(flow, kb)
          /\ compile_result.status = "ok"
          /\ \/ plan = compile_result.plan
             \/ /\ Len(flow.edges) <= 1
                /\ plan = WithoutAgents(compile_result.plan)
       \/ /\ flow = FlowDefinition(<<>>, <<>>)
          /\ compile_result = NotCompiled
          /\ plan = EmptyPlan
    /\ condition_evaluator \in
          {FALSE} \cup {b \in {TRUE} : /\ Len(flow.edges) <= 2
                                       /\ \E i \in DOMAIN flow.nodes :
                                             flow.nodes[i].type = "conditional"}
    /\ EngineIdle
    /\ retry = NotWrapped
    /\ provider = Reliable
    /\ websocket = NotConnected

NextRun == EngineStep(1)

\* one execute invocation on the engine
SpecRun == InitRun /\ [][NextRun]_vars

\* one execute invocation whose consumer goes on requesting events and whose
\* providers each return or raise: no step that can be taken is put off forever
SpecRunFair == InitRun /\ [][NextRun]_vars /\ WF_vars(NextRun)

\* two execute invocations on the one engine (the module-level singleton of
\* app/api/websocket.py) and the one compiled plan, interleaved at their
\* suspension points; the flows are those of at most MaxConcurrentNodes nodes
InitConcurrent ==
    /\ \E types \in {t \in RunTypeLists : Len(t) <= MaxConcurrentNodes} :
          \E ends \in RunEdgeLists(types) : flow = RunFlow(types, ends)
    /\ \E kb \in BOOLEAN : compile_result = Compile(flow, kb)
    /\ compile_result.status = "ok"
    /\ plan = compile_result.plan
    /\ condition_evaluator \in
          {FALSE} \cup {b \in {TRUE} : \E i \in DOMAIN flow.nodes :
                                          flow.nodes[i].type = "conditional"}
    /\ EngineIdle
    /\ retry = NotWrapped
    /\ provider = Reliable
    /\ websocket = NotConnected

NextConcurrent == \E r \in Runs : EngineStep(r)

SpecConcurrent == InitConcurrent /\ [][NextConcurrent]_vars

\* two execute invocations on the one engine and plan, the second one after the
\* generator of the first has finished; the flows are those of conditional and
\* output nodes only and the flows of at most MaxSequentialNodes nodes
BranchTypes == {"conditional", "output"}

InitSequential ==
    /\ \E types \in {t \in RunTypeLists :
                        Len(t) <= MaxSequentialNodes \/ Range(t) \subseteq BranchTypes} :
          \E ends \in RunEdgeLists(types) : flow = RunFlow(types, ends)
    /\ \E kb \in BOOLEAN : compile_result = Compile(flow, kb)
    /\ compile_result.status = "ok"
    /\ plan = compile_result.plan
    /\ condition_evaluator \in
          {FALSE} \cup {b \in {TRUE} : \E i \in DOMAIN flow.nodes :
                                          flow.nodes[i].type = "conditional"}
    /\ EngineIdle
    /\ retry = NotWrapped
    /\ provider = Reliable
    /\ websocket = NotConnected

NextSequential ==
    \/ EngineStep(1)
    \/ pc[1] = "closed" /\ EngineStep(2)

SpecSequential == InitSequential /\ [][NextSequential]_vars

\* node ids as a client may choose them: any strings
ClientIds == {"n1", "n2", "user_input"}

\* the node kinds of the flows compiled for their input nodes
InputKinds == {<<"input", NoConfig>>, <<"input", SomeConfig>>, <<"agent", SomeConfig>>,
               <<"output", SomeConfig>>}

MaxInputEdges == 1     \* longest edge list of a flow compiled for its input nodes

\* flows of nodes with distinct ids of the client's choice
InitInput ==
    /\ \E ids \in SeqsUpTo(ClientIds, Cardinality(ClientIds)) :
       \E kinds \in SeqsUpTo(InputKinds, Cardinality(ClientIds)) :
       \E ends \in SeqsUpTo(ClientIds \X ClientIds, MaxInputEdges) :
          /\ Len(ids) = Len(kinds)
          /\ \A i, j \in DOMAIN ids : ids[i] = ids[j] => i = j
          /\ flow = CompileFlow(ids, kinds, ends)
    /\ compile_result = NotCompiled
    /\ plan = NoPlan
    /\ condition_evaluator = FALSE
    /\ EngineIdle
    /\ retry = NotWrapped
    /\ provider = Reliable
    /\ websocket = NotConnected

SpecInput == InitInput /\ [][NextCompile]_vars

\* functions wrapped with max_attempts from 0 to MaxAttempts and called once
InitRetry ==
    /\ \E max_attempts \in 0..MaxAttempts, base_delay \in BaseDelays,
          max_delay \in MaxDelays :
          retry = Wrapped(max_attempts, base_delay, max_delay)
    /\ provider = Reliable
    /\ websocket = NotConnected
    /\ flow = FlowDefinition(<<>>, <<>>)
    /\ compile_result = NotCompiled
    /\ plan = NoPlan
    /\ condition_evaluator = FALSE
    /\ EngineIdle

NextRetry ==
    \/ WrapperCalled
    \/ FuncReturns
    \/ FuncRaisesOther
    \/ FuncRaises
    \/ SleepEnds

SpecRetry == InitRetry /\ [][NextRetry]_vars

\* node ids of the flows that branch
CascadeIds == <<"n1", "n2", "n3", "n4">>

\* the candidate edges of a branching flow: each leads from an earlier to a later
\* declared node; an edge leaving a conditional node names one of its handles
CascadeEdgeCandidates(types) ==
    LET all == <<
          <<1, 2, None>>, <<1, 2, "true">>, <<1, 2, "false">>,
          <<1, 3, None>>, <<1, 3, "true">>, <<1, 3, "false">>,
          <<1, 4, None>>, <<1, 4, "true">>, <<1, 4, "false">>,
          <<2, 3, None>>, <<2, 3, "true">>, <<2, 3, "false">>,
          <<2, 4, None>>, <<2, 4, "true">>, <<2, 4, "false">>,
          <<3, 4, None>>, <<3, 4, "true">>, <<3, 4, "false">> >>
    IN SelectSeq(all, LAMBDA c : /\ c[2] <= Len(types)
                                 /\ (c[3] # None) <=> (types[c[1]] = "conditional"))

CascadeEdgeLists(types) ==
    LET cands == CascadeEdgeCandidates(types)
    IN {SubList(cands, I) : I \in {J \in SUBSET DOMAIN cands : Cardinality(J) <= MaxEdges}}

\* conditional and output nodes below a first node that is a conditional
CascadeTypeLists ==
    UNION {{types \in [1..k -> BranchTypes] : types[1] = "conditional"} :
           k \in 2..Len(CascadeIds)}

CascadeFlow(types, ends) ==
    FlowDefinition(
        [i \in DOMAIN types |-> FlowNode(CascadeIds[i], types[i], SomeConfig)],
        [i \in DOMAIN ends |->
            FlowEdge(EdgeIds[i], CascadeIds[ends[i][1]], ends[i][3], CascadeIds[ends[i][2]])])

\* one execute invocation on a flow that branches, or on a flow of one node of
\* any type
InitCascade ==
    /\ \/ \E types \in CascadeTypeLists : \E ends \in CascadeEdgeLists(types) :
             flow = CascadeFlow(types, ends)
       \/ \E types \in {t \in RunTypeLists : Len(t) = 1} : flow = RunFlow(types, <<>>)
    /\ \E kb \in BOOLEAN : compile_result = Compile(flow, kb)
    /\ compile_result.status = "ok"
    /\ plan = compile_result.plan
    /\ condition_evaluator = FALSE
    /\ EngineIdle
    /\ retry = NotWrapped
    /\ provider = Reliable
    /\ websocket = NotConnected

SpecCascade == InitCascade /\ [][NextRun]_vars

\* providers of every kind: the evaluator's model answers with any of the
\* contents of EvaluatorAnswers, and any of the configured sources cannot be loaded
Providers ==
    {[answers |-> EvaluatorAnswers, unloadable |-> U] :
        U \in SUBSET Range(SourcesConfig.sources)}

\* the node types of the flows whose nodes call a provider of their own
ProviderTypes == {"input", "conditional", "output", "knowledge_base"}

\* one execute invocation, with the default evaluator and a knowledge that can
\* be built, on a flow that holds a conditional or a knowledge_base node
InitProviders ==
    /\ \E types \in {t \in RunTypeLists : /\ Range(t) \subseteq ProviderTypes
                                          /\ Range(t) \cap {"conditional", "knowledge_base"} # {}} :
          \E ends \in {e \in RunEdgeLists(types) : Len(e) <= MaxProviderEdges} :
             flow = RunFlow(types, ends)
    /\ compile_result = Compile(flow, TRUE)
    /\ compile_result.status = "ok"
    /\ plan = compile_result.plan
    /\ condition_evaluator = FALSE
    /\ EngineIdle
    /\ retry = NotWrapped
    /\ provider \in {q \in Providers :
                        q.unloadable # {} =>
                           \E i \in DOMAIN flow.nodes : flow.nodes[i].type = "knowledge_base"}
    /\ websocket = NotConnected

SpecProviders == InitProviders /\ [][NextRun]_vars

\* the flows a client sends for execution: an input node before an agent, a
\* conditional with an output node on each handle, a knowledge_base node with
\* sources; and flows that do not compile: one without nodes, one with an edge
\* to a node that is not there, one with a cycle, one with an agent that lacks
\* its configuration, one that declares an id twice
SocketFlows ==
    {RunFlow(<<"input", "agent">>, <<<<1, 2, None>>>>),
     RunFlow(<<"conditional", "output", "output">>, <<<<1, 2, "true">>, <<1, 3, "false">>>>),
     RunFlow(<<"knowledge_base">>, <<>>),
     FlowDefinition(<<>>, <<>>),
     CompileFlow(<<"n1">>, <<<<"input", NoConfig>>>>, <<<<"n1", "n2">>>>),
     CompileFlow(<<"n1", "n2">>, <<<<"input", NoConfig>>, <<"input", NoConfig>>>>,
                 <<<<"n1", "n2">>, <<"n2", "n1">>>>),
     CompileFlow(<<"n1", "n2">>, <<<<"input", NoConfig>>, <<"agent", NoConfig>>>>,
                 <<<<"n1", "n2">>>>),
     CompileFlow(<<"n1", "n1">>, <<<<"input", NoConfig>>, <<"input", NoConfig>>>>, <<>>)}

\* the texts a client sends
ClientMessages ==
    {ClientMessage("not_json", "missing", FlowDefinition(<<>>, <<>>)),
     ClientMessage("ping", "missing", FlowDefinition(<<>>, <<>>)),
     ClientMessage("stop", "missing", FlowDefinition(<<>>, <<>>)),
     ClientMessage("execute", "missing", FlowDefinition(<<>>, <<>>)),
     ClientMessage("execute", "invalid", FlowDefinition(<<>>, <<>>))}
        \cup {ClientMessage("execute", "flow", f) : f \in SocketFlows}

\* one connection to /ws/execution, served by the module's compiler and engine
InitSocket ==
    /\ websocket = Connected
    /\ flow = FlowDefinition(<<>>, <<>>)
    /\ compile_result = NotCompiled
    /\ plan = NoPlan
    /\ condition_evaluator = FALSE
    /\ EngineIdle
    /\ retry = NotWrapped
    /\ provider = Reliable

NextSocket ==
    \/ \E m \in ClientMessages : Receive(m)
    \/ EngineTurn
    \/ SendEvent
    \/ StreamEnds
    \/ ClientCloses
    \/ Disconnected

SpecSocket == InitSocket /\ [][NextSocket]_vars

(***************************************************************************)
(* Properties of FlowCompiler.compile                                      *)
(***************************************************************************)
Compiled == compile_result.status # "none"

UniqueIds(f) == \A i, j \in DOMAIN f.nodes : f.nodes[i].id = f.nodes[j].id => i = j

\* the pairs (u, v) joined by a path of n or fewer edges that stays in pairs
RECURSIVE PathsUpTo(_, _)
PathsUpTo(pairs, n) ==
    IF n <= 1 THEN pairs
    ELSE LET shorter == PathsUpTo(pairs, n - 1)
         IN shorter \cup {<<p[1], q[2]>> : p, q \in {<<a, b>> \in shorter \X pairs : a[2] = b[1]}}

\* the flow's edges contain a directed cycle (a self-loop is one)
HasCycle(f) ==
    LET pairs == {<<f.edges[i].source, f.edges[i].target>> : i \in DOMAIN f.edges}
    IN \E p \in PathsUpTo(pairs, Len(f.edges)) : p[1] = p[2]

PositionIn(order, id) == CHOOSE i \in DOMAIN order : order[i] = id

\* order has one entry per node of f, and every edge leads to a later entry
TopologicalOrderOf(order, f) ==
    /\ Len(order) = Len(f.nodes)
    /\ Range(order) = NodeIdSet(f)
    /\ \A i, j \in DOMAIN order : order[i] = order[j] => i = j
    /\ \A i \in DOMAIN f.edges :
          PositionIn(order, f.edges[i].source) < PositionIn(order, f.edges[i].target)

\* C1 as stated: for any graph that passes validation and contains no directed
\* cycle, compile returns an execution_order with exactly one entry per node in
\* which every edge (u,v) has u at a strictly smaller index than v.
C1_AnyValidAcyclicFlowIsOrdered ==
    (Compiled /\ Validate(flow) = <<>> /\ ~HasCycle(flow))
        => /\ compile_result.status = "ok"
           /\ TopologicalOrderOf(compile_result.plan.execution_order, flow)

\* C1 (amended): for any graph with pairwise distinct node ids that passes
\* validation and contains no directed cycle, compile either fails with the
\* configuration error of a node compiler that finds its node's configuration
\* absent, or returns an execution_order that has exactly one entry per node
\* (a permutation of the node ids) in which, for every edge (u,v), u appears at
\* a strictly smaller index than v.
C1_ValidAcyclicDistinctFlowIsOrdered ==
    (Compiled /\ Validate(flow) = <<>> /\ ~HasCycle(flow) /\ UniqueIds(flow))
        => \/ /\ compile_result.status = "ok"
              /\ TopologicalOrderOf(compile_result.plan.execution_order, flow)
           \/ /\ compile_result.status = "config"
              /\ \E i \in DOMAIN flow.nodes :
                    /\ flow.nodes[i].type \in RegisteredTypes
                    /\ ~flow.nodes[i].config.present

\* a compiled three-node flow with edges whose order is not the declaration order
C1_Witness ==
    /\ compile_result.status = "ok"
    /\ UniqueIds(flow)
    /\ Len(flow.nodes) = 3
    /\ Len(flow.edges) >= 2
    /\ compile_result.plan.execution_order # KeyOrder(flow)

\* C10: for any graph containing a directed cycle (a self-loop included) whose
\* edges all reference existing nodes, compile raises the cycle error, invokes
\* no node compiler and produces no compiled nodes and no plan.
C10_CycleRaisesBeforeCompiling ==
    (Compiled /\ Validate(flow) = <<>> /\ HasCycle(flow))
        => /\ compile_result.status = "cycle"
           /\ compile_result.compiler_calls = <<>>
           /\ compile_result.plan = NoPlan

\* a flow with a self-loop, and a flow with a longer cycle below a root that a
\* compiler is registered for, were rejected
C10_Witness ==
    /\ compile_result.status = "cycle"
    /\ HasCycle(flow)
    /\ \E i \in DOMAIN flow.edges : flow.edges[i].source # flow.edges[i].target
    /\ \E i \in DOMAIN flow.nodes :
          /\ flow.nodes[i].type \in RegisteredTypes
          /\ \A j \in DOMAIN flow.edges : flow.edges[j].target # flow.nodes[i].id

\* the edges of the flow with an endpoint that is no node id
UnknownSource == {i \in DOMAIN flow.edges : flow.edges[i].source \notin NodeIdSet(flow)}

UnknownTarget == {i \in DOMAIN flow.edges : flow.edges[i].target \notin NodeIdSet(flow)}

\* the positions in the error list of the messages equal to m
Messages(errors, m) == {k \in DOMAIN errors : errors[k] = m}

\* C11: validation accumulates every structural problem instead of stopping at
\* the first: the list holds one message for an empty node list, one message
\* for each edge whose source is not a node id and one for each edge whose
\* target is not a node id, so a graph with two dangling edges yields an error
\* listing both; the list is empty exactly when the graph has at least one node
\* and every edge endpoint exists.
C11_ValidationListsEveryProblem ==
    Compiled =>
        LET errors == IF compile_result.status = "validation"
                      THEN compile_result.errors ELSE <<>>
            E(i) == flow.edges[i]
        IN /\ Cardinality(Messages(errors, <<"Flow must have at least one node.",
                                             None, None>>))
                 = IF flow.nodes = <<>> THEN 1 ELSE 0
           /\ \A i \in DOMAIN flow.edges :
                 /\ Cardinality(Messages(errors, <<"unknown source", E(i).id, E(i).source>>))
                       = IF i \in UnknownSource THEN 1 ELSE 0
                 /\ Cardinality(Messages(errors, <<"unknown target", E(i).id, E(i).target>>))
                       = IF i \in UnknownTarget THEN 1 ELSE 0
           /\ Len(errors) = (IF flow.nodes = <<>> THEN 1 ELSE 0)
                               + Cardinality(UnknownSource) + Cardinality(UnknownTarget)
           /\ (errors = <<>>) <=>
                 (flow.nodes # <<>> /\ UnknownSource = {} /\ UnknownTarget = {})

\* a flow with nodes in which one edge has only an unknown source and another
\* edge only an unknown target was rejected with both messages
C11_Witness ==
    /\ compile_result.status = "validation"
    /\ flow.nodes # <<>>
    /\ Len(compile_result.errors) = 2
    /\ \E i \in UnknownSource \ UnknownTarget : \E j \in UnknownTarget \ UnknownSource :
          i # j

\* C12: if validation finds any problem, compile fails with a single aggregated
\* validation error before building the adjacency, sorting or invoking any node
\* compiler, and returns no plan; a graph that has both a dangling edge and a
\* cycle fails with the validation error and not with the cycle error.
C12_ValidationErrorComesFirst ==
    (Compiled /\ (flow.nodes = <<>> \/ UnknownSource # {} \/ UnknownTarget # {})) =>
        /\ compile_result.status = "validation"
        /\ compile_result.errors # <<>>
        /\ compile_result.compiler_calls = <<>>
        /\ compile_result.plan = NoPlan

\* a flow with a cycle n1 -> n2 -> n1 among its nodes and an edge to an unknown
\* node was rejected by validation
C12_Witness ==
    /\ compile_result.status = "validation"
    /\ UnknownTarget # {}
    /\ \E i, j \in DOMAIN flow.edges :
          /\ flow.edges[i].source = flow.edges[j].target
          /\ flow.edges[j].source = flow.edges[i].target
          /\ flow.edges[i].source # flow.edges[i].target
          /\ {flow.edges[i].source, flow.edges[i].target} \subseteq NodeIdSet(flow)

\* the nodes whose compiler requires a configuration variant that is absent
LacksConfig ==
    {i \in DOMAIN flow.nodes :
        flow.nodes[i].type \in {"agent", "knowledge_base"} /\ ~ flow.nodes[i].config.present}

\* C18: when the compiler registered for a node's type finds the node's
\* required configuration variant absent (an agent node without agent
\* configuration, a knowledge_base node without knowledge_base configuration),
\* compile fails with an error naming that node and returns no plan, however
\* many earlier nodes of execution_order were already compiled.
C18_MissingConfigurationAborts ==
    (Compiled /\ compile_result.status \notin {"validation", "cycle"} /\ LacksConfig # {}) =>
        /\ compile_result.status = "config"
        /\ compile_result.plan = NoPlan
        /\ Len(compile_result.errors) = 1
        /\ \E i \in LacksConfig :
              /\ compile_result.errors[1] =
                    <<"missing " \o flow.nodes[i].type \o " configuration", flow.nodes[i].id>>
              /\ compile_result.compiler_calls # <<>>
              /\ compile_result.compiler_calls[Len(compile_result.compiler_calls)].node
                    = flow.nodes[i].id

\* compile failed at a knowledge_base node without configuration after the
\* compilers of two earlier nodes had returned
C18_Witness ==
    /\ compile_result.status = "config"
    /\ Len(compile_result.compiler_calls) = 3
    /\ \E i \in LacksConfig : flow.nodes[i].type = "knowledge_base"
    /\ compile_result.plan = NoPlan

\* the order compile works through: the result of _topological_sort
SortedNodeIds == TopologicalSort(flow, BuildAdjacency(flow)).order

\* C27: compile invokes the node compilers strictly in execution_order order,
\* and the prior-compiled map passed when compiling the node at position i
\* contains exactly the compiled nodes of positions 0..i-1 (all of them, not
\* only the node's direct predecessors, and none of the later ones).
C27_CompilersRunInOrderWithAllPrior ==
    compile_result.status \in {"ok", "config"} =>
        LET called == compile_result.compiler_calls
            order == SortedNodeIds
            registered == SelectSeq(order, LAMBDA id : NodeMap(flow)[id].type \in RegisteredTypes)
        IN /\ compile_result.status = "ok" =>
                 /\ order = compile_result.plan.execution_order
                 /\ [k \in DOMAIN called |-> called[k].node] = registered
           /\ Len(called) <= Len(registered)
           /\ \A k \in DOMAIN called :
                 /\ called[k].node = registered[k]
                 /\ called[k].context =
                       {order[j] : j \in 1..(PositionIn(order, called[k].node) - 1)}

\* the compiler of the third node in the order was handed two compiled nodes,
\* one of them a passthrough node that no edge joins to it
C27_Witness ==
    /\ compile_result.status = "ok"
    /\ Len(SortedNodeIds) = 3
    /\ SortedNodeIds # KeyOrder(flow)
    /\ \E k \in DOMAIN compile_result.compiler_calls :
          LET call == compile_result.compiler_calls[k] IN
          /\ call.node = SortedNodeIds[3]
          /\ Cardinality(call.context) = 2
          /\ \E id \in call.context :
                /\ compile_result.plan.compiled_nodes[id].raw
                /\ \A e \in DOMAIN flow.edges :
                      ~ (flow.edges[e].source = id /\ flow.edges[e].target = call.node)

\* the nodes of the flow without incoming edge
FlowRoots == {id \in NodeIdSet(flow) : \A e \in DOMAIN flow.edges : flow.edges[e].target # id}

\* the moment the in-degree of node v reaches zero while order is built: the
\* position in order of the last of its sources, and the position of the last
\* edge to v among the edges leaving that source
ReadyAt(order, v) ==
    LET sources == {flow.edges[e].source : e \in {x \in DOMAIN flow.edges :
                                                    flow.edges[x].target = v}}
        last == CHOOSE p \in sources :
                   \A q \in sources : PositionIn(order, q) <= PositionIn(order, p)
        leaving == SelectSeq(flow.edges, LAMBDA e : e.source = last)
    IN <<PositionIn(order, last),
         CHOOSE i \in DOMAIN leaving :
            /\ leaving[i].target = v
            /\ \A j \in DOMAIN leaving : leaving[j].target = v => j <= i>>

Earlier(a, b) == a[1] < b[1] \/ (a[1] = b[1] /\ a[2] < b[2])

\* C28: the topological order is a deterministic function of node declaration
\* order and edge order: all nodes with no incoming edge come first, in
\* node-declaration order, and every other node is appended in the FIFO order
\* in which its in-degree reaches zero; compiling the same graph twice
\* therefore yields the identical execution_order.
C28_OrderIsDeterministic ==
    compile_result.status = "ok" =>
        LET order == compile_result.plan.execution_order
            n == Cardinality(FlowRoots)
        IN /\ SubSeq(order, 1, n) = SelectSeq(KeyOrder(flow), LAMBDA id : id \in FlowRoots)
           /\ \A i, j \in (n + 1)..Len(order) :
                 i < j => Earlier(ReadyAt(order, order[i]), ReadyAt(order, order[j]))
           /\ \A kb \in BOOLEAN :
                 LET again == Compile(flow, kb) IN
                 again.status = "ok" /\ again.plan.execution_order = order

\* two nodes below the one root were appended in the order of the edges, which
\* is not the order of their declaration
C28_Witness ==
    /\ compile_result.status = "ok"
    /\ FlowRoots = {flow.nodes[1].id}
    /\ Len(flow.nodes) = 3
    /\ compile_result.plan.execution_order # KeyOrder(flow)
    /\ ReadyAt(compile_result.plan.execution_order, flow.nodes[2].id)[1] = 1
    /\ ReadyAt(compile_result.plan.execution_order, flow.nodes[3].id)[1] = 1

\* the targets of the edges of the flow that leave node id, in edge order
TargetsOf(id) ==
    LET leaving == SelectSeq(flow.edges, LAMBDA e : e.source = id)
    IN [i \in DOMAIN leaving |-> leaving[i].target]

\* C29: every plan returned by compile is complete and consistent with its
\* graph: compiled_nodes has exactly one entry per node id of the graph,
\* execution_order is a permutation of those ids, adjacency has a key for every
\* node whose target list holds the targets of that node's outgoing edges in
\* edge order, and edges lists every edge of the graph in its original order;
\* the input graph itself is not modified by compile.
C29_PlanIsCompleteAndConsistent ==
    /\ [](compile_result.status = "ok" =>
             LET p == compile_result.plan IN
             /\ DOMAIN p.compiled_nodes = NodeIdSet(flow)
             /\ Cardinality(DOMAIN p.compiled_nodes) = Len(flow.nodes)
             /\ Len(p.execution_order) = Len(flow.nodes)
             /\ Range(p.execution_order) = NodeIdSet(flow)
             /\ \A i, j \in DOMAIN p.execution_order :
                   p.execution_order[i] = p.execution_order[j] => i = j
             /\ DOMAIN p.adjacency = NodeIdSet(flow)
             /\ \A id \in NodeIdSet(flow) : p.adjacency[id] = TargetsOf(id)
             /\ p.edges = flow.edges
             /\ p.flow_id = flow.id)
    /\ [][flow' = flow]_vars

\* a plan was returned for a flow in which one node has two outgoing edges to
\* different nodes, the later declared node first, and another node has none
C29_Witness ==
    /\ compile_result.status = "ok"
    /\ Len(flow.nodes) = 3
    /\ \E id \in NodeIdSet(flow) :
          /\ Len(compile_result.plan.adjacency[id]) = 2
          /\ compile_result.plan.adjacency[id][1] = flow.nodes[3].id
          /\ compile_result.plan.adjacency[id][2] = flow.nodes[2].id
    /\ \E id \in NodeIdSet(flow) : compile_result.plan.adjacency[id] = <<>>

\* C30 as stated: in a compiled plan, every compiled node's node_type equals
\* the type tag of the graph node it was compiled from and its node_id equals
\* that node's id, for every node type that has a registered compiler as well
\* as for passthrough nodes.
C30_CompiledTypeIsTheTypeTag ==
    compile_result.status = "ok" =>
        \A i \in DOMAIN flow.nodes :
            LET compiled == compile_result.plan.compiled_nodes[flow.nodes[i].id] IN
            /\ compiled.node_id = flow.nodes[i].id
            /\ compiled.node_type = flow.nodes[i].type

\* C30 (amended): in a compiled plan, every compiled node's node_id equals the
\* id of the graph node it was compiled from, and its node_type equals that
\* node's type tag, for passthrough nodes and for every node type that has a
\* registered compiler except tool: a tool node compiles to node_type
\* "web_search".
C30_CompiledTypeIsTheTypeTagOrWebSearch ==
    compile_result.status = "ok" =>
        \A i \in DOMAIN flow.nodes :
            LET compiled == compile_result.plan.compiled_nodes[flow.nodes[i].id] IN
            /\ compiled.node_id = flow.nodes[i].id
            /\ compiled.node_type =
                  IF flow.nodes[i].type = "tool" THEN "web_search" ELSE flow.nodes[i].type
            /\ compiled.raw <=> flow.nodes[i].type \notin RegisteredTypes

\* a plan was returned for a flow with a tool node below an input node
C30_Witness ==
    /\ compile_result.status = "ok"
    /\ Len(flow.nodes) >= 2
    /\ \E i \in DOMAIN flow.nodes :
          /\ flow.nodes[i].type = "tool"
          /\ compile_result.plan.compiled_nodes[flow.nodes[i].id].node_type = "web_search"
          /\ compile_result.plan.compiled_nodes[flow.nodes[i].id].node_id = flow.nodes[i].id
          /\ \E e \in DOMAIN flow.edges : flow.edges[e].target = flow.nodes[i].id

(***************************************************************************)
(* Properties of one ExecutionEngine.execute invocation                    *)
(***************************************************************************)
Max(S) == CHOOSE x \in S : \A y \in S : y <= x

Order == plan.execution_order

\* the positions in the stream of run r of the events of one type and node
EventIdx(r, type, n) ==
    {i \in DOMAIN events[r] : events[r][i].type = type /\ events[r][i].node_id = n}

Has(r, type, n) == EventIdx(r, type, n) # {}

\* the loop of run r has reached the skip check of node n
SkipChecked(r, n) == Has(r, "node_skipped", n) \/ Has(r, "node_start", n)

Incoming(n) == {i \in DOMAIN plan.edges : plan.edges[i].target = n}

Outgoing(n) == {i \in DOMAIN plan.edges : plan.edges[i].source = n}

IsConditional(n) ==
    n \in DOMAIN plan.compiled_nodes /\ plan.compiled_nodes[n].node_type = "conditional"

\* a dead edge: its source is in the skipped set, or its source is a conditional
\* with a recorded decision and the edge declares a different source-handle
Dead(r, e) ==
    \/ e.source \in skipped_nodes[r]
    \/ /\ IsConditional(e.source)
       /\ e.source \in DOMAIN own_decisions[r]
       /\ e.source_handle # None
       /\ e.source_handle # own_decisions[r][e.source]

\* the calls run r made for node n
CallsFor(r, n) == {k \in DOMAIN calls[r] : calls[r][k].node = n}

\* the exceptions that reached the try of execute in run r
Raised(r) == {k \in DOMAIN calls[r] : calls[r][k].kind = "raised"}

\* C3: during a run, a node is skipped if and only if it has at least one
\* incoming edge and every incoming edge is dead (source skipped, or source a
\* conditional with a recorded decision and a declared source-handle different
\* from it); so a node without incoming edges is never skipped, an edge without
\* source-handle from an executed conditional is never dead, and a node with a
\* mix of live and dead incoming edges runs.
C3_SkippedIffAllIncomingDead ==
    \A r \in Runs : \A n \in Range(Order) :
        SkipChecked(r, n) =>
            /\ (n \in skipped_nodes[r]) <=>
                   /\ Incoming(n) # {}
                   /\ \A i \in Incoming(n) : Dead(r, plan.edges[i])
            /\ (n \in skipped_nodes[r]) <=> Has(r, "node_skipped", n)
            /\ (n \notin skipped_nodes[r]) <=> Has(r, "node_start", n)
            /\ \A i \in Incoming(n) :
                  (/\ plan.edges[i].source_handle = None
                   /\ plan.edges[i].source \in DOMAIN own_decisions[r])
                      => ~ Dead(r, plan.edges[i]) /\ n \notin skipped_nodes[r]

\* a node started although one of its incoming edges comes from a skipped node,
\* its other incoming edge leaving an executed conditional without source-handle
C3_Witness ==
    \E n \in Range(Order) :
        /\ Has(1, "node_start", n)
        /\ \E i \in Incoming(n) : plan.edges[i].source \in skipped_nodes[1]
        /\ \E i \in Incoming(n) :
              /\ plan.edges[i].source \in DOMAIN own_decisions[1]
              /\ plan.edges[i].source_handle = None

\* the node ids at a later position of execution_order than n
After(n) == {m \in Range(Order) : PositionIn(Order, m) > PositionIn(Order, n)}

\* run r has touched node m: skip-checked, started, called or recorded
Touched(r, m) ==
    \/ \E i \in DOMAIN events[r] : events[r][i].node_id = m
    \/ \E k \in DOMAIN calls[r] : calls[r][k].node = m
    \/ m \in skipped_nodes[r]
    \/ m \in DOMAIN node_outputs[r]

\* C4: if the execution of node n fails (its provider call raises, or an
\* agent/web_search node has no compiled agent), the stream contains
\* node_start(n) followed immediately by exactly one error event carrying node
\* id n and the failure message; that error event is the last event of the
\* stream, no flow_complete is emitted, and no node after n in execution_order
\* is skip-checked, started or executed.
C4_FailureEndsTheRun ==
    \A r \in Runs : \A k \in Raised(r) :
        LET n == calls[r][k].node
            last == Len(events[r])
        IN /\ last >= 2
           /\ events[r][last] =
                 ExecutionEvent("error", n, plan.flow_id, None, calls[r][k].arg)
           /\ events[r][last - 1] =
                 ExecutionEvent("node_start", n, plan.flow_id, None, "")
           /\ Cardinality({i \in DOMAIN events[r] : events[r][i].type = "error"}) = 1
           /\ \A i \in DOMAIN events[r] : events[r][i].type # "flow_complete"
           /\ k = Len(calls[r])
           /\ n \notin DOMAIN node_outputs[r]
           /\ \A m \in After(n) : ~ Touched(r, m)
           /\ pc[r] \in {"error", "closed"}

\* the generator was closed after the second of three nodes failed, the first
\* one having completed
C4_Witness ==
    /\ pc[1] = "closed"
    /\ Raised(1) # {}
    /\ \E k \in Raised(1) :
          /\ After(calls[1][k].node) # {}
          /\ \E m \in Range(Order) :
                Has(1, "node_complete", m) /\ calls[1][k].node \in After(m)

\* C5: in a run, every node that executes successfully produces exactly the
\* three events node_start(n), node_output(n) carrying the produced value and
\* node_complete(n), consecutively and in that order with no event of another
\* node between them; the per-node event groups (node_skipped events included)
\* appear in the order of execution_order; never are two nodes started and not
\* yet completed at the same time within one run.
C5_NodeEventsInOrder ==
    \A r \in Runs :
        LET ev == events[r]
            Open == {n \in Range(Order) :
                        /\ Has(r, "node_start", n)
                        /\ ~ Has(r, "node_complete", n)
                        /\ ~ Has(r, "error", n)}
        IN /\ \A i \in DOMAIN ev :
                 LET n == ev[i].node_id IN
                 /\ ev[i].type = "node_output" =>
                       /\ i > 1
                       /\ ev[i - 1] = ExecutionEvent("node_start", n, plan.flow_id, None, "")
                       /\ n \in DOMAIN node_outputs[r]
                       /\ ev[i].data = node_outputs[r][n]
                 /\ ev[i].type = "node_complete" =>
                       /\ i > 2
                       /\ ev[i - 1].type = "node_output" /\ ev[i - 1].node_id = n
                 /\ (ev[i].type = "node_start" /\ i < Len(ev)) =>
                       /\ ev[i + 1].type \in {"node_output", "error"}
                       /\ ev[i + 1].node_id = n
                 /\ (ev[i].type = "node_output" /\ i < Len(ev)) =>
                       ev[i + 1] = ExecutionEvent("node_complete", n, plan.flow_id, None, "")
                 /\ n # None => n \in Range(Order)
           /\ \A n \in Range(Order) :
                 /\ \A type \in {"node_start", "node_output", "node_complete",
                                 "node_skipped"} :
                        Cardinality(EventIdx(r, type, n)) <= 1
                 /\ (n \in DOMAIN node_outputs[r]) <=> Has(r, "node_output", n)
                 /\ (n \in DOMAIN node_outputs[r] /\ pc[r] \in {"flow_complete", "closed"})
                        => Has(r, "node_complete", n)
           /\ \A i \in DOMAIN ev :
                 (i > 1 /\ i < Len(ev)) => ev[i].node_id # None
           /\ \A i \in DOMAIN ev :
                 (i > 1 /\ ev[i - 1].node_id # None /\ ev[i].node_id # None)
                    => PositionIn(Order, ev[i - 1].node_id) <= PositionIn(Order, ev[i].node_id)
           /\ Cardinality(Open) <= 1

\* a finished run in which two nodes produced their three events, the second
\* one a non-empty value, and a third node was skipped
C5_Witness ==
    /\ pc[1] = "flow_complete"
    /\ Cardinality({n \in Range(Order) : Has(1, "node_complete", n)}) = 2
    /\ \E n \in Range(Order) : Has(1, "node_skipped", n)
    /\ \E i \in DOMAIN events[1] :
          /\ events[1][i].type = "node_output"
          /\ events[1][i].data \notin {None, ""}
          /\ i > 4

\* run r went through the whole of execution_order
Finished(r) == \E i \in DOMAIN events[r] : events[r][i].type = "flow_complete"

\* the outputs wired to conditional c by the one handle h only
OutputsOn(c, h) ==
    {n \in Range(Order) :
        /\ plan.compiled_nodes[n].node_type = "output"
        /\ Incoming(n) # {}
        /\ \A i \in Incoming(n) :
              plan.edges[i].source = c /\ plan.edges[i].source_handle = h}

\* C6: a skipped node produces exactly one node_skipped event and no
\* node_start, node_output, node_complete or error event, no provider or
\* evaluator is invoked for it, and no output is recorded for its id.  In
\* particular, for a conditional whose decision is "true" with two downstream
\* outputs wired only to handles "true" and "false", the "true"-handle output
\* executes and produces node_output while the "false"-handle output produces
\* exactly one node_skipped and no node_output.
C6_SkippedNodeDoesNothing ==
    \A r \in Runs :
        /\ \A n \in Range(Order) :
              (n \in skipped_nodes[r] \/ Has(r, "node_skipped", n)) =>
                 /\ Cardinality(EventIdx(r, "node_skipped", n)) = 1
                 /\ \A i \in DOMAIN events[r] :
                       events[r][i].node_id = n => events[r][i].type = "node_skipped"
                 /\ \A k \in DOMAIN calls[r] : calls[r][k].node # n
                 /\ n \notin DOMAIN node_outputs[r]
                 /\ n \notin DOMAIN own_decisions[r]
        /\ \A c \in DOMAIN own_decisions[r] :
              (own_decisions[r][c] = "true" /\ Finished(r)) =>
                 /\ \A t \in OutputsOn(c, "true") :
                       /\ Has(r, "node_output", t)
                       /\ ~ Has(r, "node_skipped", t)
                 /\ \A f \in OutputsOn(c, "false") :
                       /\ Cardinality(EventIdx(r, "node_skipped", f)) = 1
                       /\ ~ Has(r, "node_output", f)

\* the run of a conditional decided "true" with one output on each handle ended
C6_Witness ==
    /\ pc[1] = "flow_complete"
    /\ \E c \in DOMAIN own_decisions[1] :
          /\ own_decisions[1][c] = "true"
          /\ \E t \in OutputsOn(c, "true") : Has(1, "node_output", t)
          /\ \E f \in OutputsOn(c, "false") : f \in skipped_nodes[1]

\* every call was begun while the consumer awaited the event after node_start
CallsFollowConsumedStart(r) ==
    \A k \in DOMAIN calls[r] :
        LET c == calls[r][k] IN
        /\ c.delivered >= 2
        /\ c.delivered <= Len(events[r])
        /\ events[r][c.delivered] =
              ExecutionEvent("node_start", c.node, plan.flow_id, None, "")
        /\ c.pulls = c.delivered + 1

\* a step of run r that produces an event or begins a call is a step of the
\* consumer's request for the next event, or one made while that request pends
OnlyOnRequest(r) ==
    (events'[r] # events[r] \/ calls'[r] # calls[r]) =>
        /\ pulls'[r] = pulls[r] + 1 \/ pulls[r] = Len(events[r]) + 1
        /\ Len(events'[r]) <= Len(events[r]) + 1
        /\ Len(events'[r]) <= pulls'[r]

\* C7: the engine is pull-driven: a node's execution (provider or evaluator
\* call) begins only after its node_start event has been consumed and the
\* consumer has requested the next event.  If the consumer stops pulling after
\* k events, no further event is produced and no node execution begins beyond
\* those already reflected in the k delivered events.
C7_PullDriven ==
    /\ [](\A r \in Runs :
             /\ Len(events[r]) <= pulls[r]
             /\ pulls[r] <= Len(events[r]) + 1
             /\ CallsFollowConsumedStart(r))
    /\ [][\A r \in Runs : OnlyOnRequest(r)]_vars

\* the consumer holds three events, the last one the node_output of the first
\* node, and has not asked for the fourth: the agent that follows, which has a
\* provider to call, is not started and no call was begun
C7_Witness ==
    /\ Len(events[1]) = 3
    /\ pulls[1] = 3
    /\ events[1][3].type = "node_output"
    /\ Len(Order) >= 2
    /\ plan.compiled_nodes[Order[2]].node_type = "agent"
    /\ plan.compiled_nodes[Order[2]].agent # None
    /\ ~ Touched(1, Order[2])
    /\ calls[1] = <<>>

\* C8: flow_complete is emitted if and only if no node execution failed; it is
\* then emitted exactly once as the last event of the stream, and its data
\* equals the output recorded for the last node id of execution_order, being
\* the empty string when execution_order is empty or when that last node
\* recorded no output because it was skipped.
C8_FlowCompleteIffNoFailure ==
    \A r \in Runs :
        LET ev == events[r]
            completes == {i \in DOMAIN ev : ev[i].type = "flow_complete"}
            last == Order[Len(Order)]
        IN /\ \A i \in completes :
                 /\ i = Len(ev)
                 /\ Raised(r) = {}
                 /\ \A j \in DOMAIN ev : ev[j].type # "error"
                 /\ \A n \in Range(Order) :
                       Has(r, "node_complete", n) \/ Has(r, "node_skipped", n)
                 /\ ev[i].flow_id = plan.flow_id
                 /\ Order = <<>> => ev[i].data = ""
                 /\ (Order # <<>> /\ last \in skipped_nodes[r]) => ev[i].data = ""
                 /\ (Order # <<>> /\ last \notin skipped_nodes[r]) =>
                       /\ last \in DOMAIN node_outputs[r]
                       /\ ev[i].data = node_outputs[r][last]
           /\ Cardinality(completes) <= 1
           /\ pc[r] = "closed" => (completes # {} <=> Raised(r) = {})
           /\ Raised(r) # {} => completes = {}

\* flow_complete carries the empty string because the last node was skipped,
\* although an earlier node recorded a non-empty output
C8_Witness ==
    /\ Finished(1)
    /\ Order # <<>>
    /\ Order[Len(Order)] \in skipped_nodes[1]
    /\ \E n \in DOMAIN node_outputs[1] : node_outputs[1][n] # ""
    /\ events[1][Len(events[1])].data = ""

\* C9: the first event of every run is flow_start carrying the plan's flow id,
\* it is emitted before any node is skip-checked or executed, and flow_start
\* occurs exactly once per run, also for a plan with an empty execution_order.
C9_FlowStartFirstAndOnce ==
    \A r \in Runs :
        /\ events[r] # <<>> =>
              /\ events[r][1] = ExecutionEvent("flow_start", None, plan.flow_id, None, "")
              /\ \A i \in DOMAIN events[r] : i > 1 => events[r][i].type # "flow_start"
        /\ events[r] = <<>> =>
              /\ \A n \in Range(Order) : ~ Touched(r, n)
              /\ calls[r] = <<>>
              /\ idx[r] = 0
              /\ pc[r] \in {"idle", "created"}
        /\ pc[r] \notin {"idle", "created"} => events[r] # <<>>

\* the run of the plan with an empty execution_order ended after flow_start and
\* flow_complete
C9_Witness ==
    /\ Order = <<>>
    /\ pc[1] = "closed"
    /\ Len(events[1]) = 2
    /\ events[1][1].type = "flow_start"
    /\ events[1][1].flow_id = plan.flow_id

\* the sources of the incoming edges of n that recorded an output in run r, in
\* the order of the edges in the plan
RecordedSources(r, n) ==
    LET F[i \in 0..Len(plan.edges)] ==
          IF i = 0 THEN <<>>
          ELSE IF /\ plan.edges[i].target = n
                  /\ plan.edges[i].source \in DOMAIN node_outputs[r]
               THEN Append(F[i - 1], plan.edges[i].source)
               ELSE F[i - 1]
    IN F[Len(plan.edges)]

Block(r, source) == "[Input from " \o source \o "]:\n" \o node_outputs[r][source]

\* the aggregated input of node n in run r
Aggregated(r, n) ==
    LET sources == RecordedSources(r, n)
        J[k \in 1..Len(sources)] ==
          IF k = 1 THEN Block(r, sources[1])
          ELSE J[k - 1] \o "\n\n" \o Block(r, sources[k])
    IN IF sources = <<>> THEN ""
       ELSE IF Len(sources) = 1 THEN node_outputs[r][sources[1]]
       ELSE J[Len(sources)]

\* the node_output events of run r for nodes of one compiled type
OutputsOfType(r, type) ==
    {i \in DOMAIN events[r] :
        /\ events[r][i].type = "node_output"
        /\ plan.compiled_nodes[events[r][i].node_id].node_type = type}

C14_AggregatedInput ==
    \A r \in Runs :
        /\ \A k \in DOMAIN calls[r] :
              calls[r][k].kind \in {"agent", "evaluator", "rag"} =>
                 calls[r][k].arg = Aggregated(r, calls[r][k].node)
        /\ \A i \in OutputsOfType(r, "output") :
              LET n == events[r][i].node_id
                  sources == RecordedSources(r, n)
              IN /\ events[r][i].data = Aggregated(r, n)
                 /\ Len(sources) = 2 =>
                       /\ events[r][i].data =
                             "[Input from " \o sources[1] \o "]:\n"
                                \o node_outputs[r][sources[1]] \o "\n\n"
                                \o "[Input from " \o sources[2] \o "]:\n"
                                \o node_outputs[r][sources[2]]
                       /\ events[r][i].data #
                             node_outputs[r][sources[1]] \o node_outputs[r][sources[2]]

\* an output node aggregated the non-empty outputs of two different upstream
\* nodes
C14_Witness ==
    \E i \in OutputsOfType(1, "output") :
        LET sources == RecordedSources(1, events[1][i].node_id) IN
        /\ Len(sources) = 2
        /\ sources[1] # sources[2]
        /\ node_outputs[1][sources[1]] # ""
        /\ node_outputs[1][sources[2]] # ""

\* the plan is the linear chain input -> agent -> output
Chain ==
    /\ Len(Order) = 3
    /\ plan.compiled_nodes[Order[1]].node_type = "input"
    /\ plan.compiled_nodes[Order[2]].node_type = "agent"
    /\ plan.compiled_nodes[Order[3]].node_type = "output"
    /\ Len(plan.edges) = 2
    /\ \E i, j \in DOMAIN plan.edges :
          /\ plan.edges[i].source = Order[1] /\ plan.edges[i].target = Order[2]
          /\ plan.edges[j].source = Order[2] /\ plan.edges[j].target = Order[3]

\* every agent provider that answered in run r answered with the text it was
\* called with
Echoed(r) ==
    \A k \in DOMAIN calls[r] :
        (calls[r][k].kind = "agent" /\ calls[r][k].node \in DOMAIN node_outputs[r])
            => node_outputs[r][calls[r][k].node] = calls[r][k].arg

\* C15: for a linear chain input -> agent -> output run with non-empty runtime
\* input X and an agent provider that echoes its aggregated input, every
\* node_output in the run carries X, the node_output of the output node equals
\* X, and flow_complete.data equals X.
C15_ChainCarriesInput ==
    \A r \in Runs :
        (Chain /\ user_input[r] # "" /\ Echoed(r)) =>
            /\ \A i \in DOMAIN events[r] :
                  events[r][i].type = "node_output" => events[r][i].data = user_input[r]
            /\ Finished(r) =>
                  /\ events[r][Len(events[r])].data = user_input[r]
                  /\ \E i \in EventIdx(r, "node_output", Order[3]) :
                        events[r][i].data = user_input[r]
                  /\ Cardinality({i \in DOMAIN events[r] :
                                     events[r][i].type = "node_output"}) = 3

\* the chain ran to its end with runtime input "X" and an echoing provider
C15_Witness ==
    /\ Chain
    /\ user_input[1] = "X"
    /\ Echoed(1)
    /\ Finished(1)
    /\ events[1][Len(events[1])].data = "X"
    /\ \E k \in DOMAIN calls[1] : calls[1][k].kind = "agent" /\ calls[1][k].arg = "X"

\* node types of NodeType that no compiler is registered for
UnregisteredTypes == {"team", "prompt", "loop", "webhook", "schedule"}

\* the flow with the type of its i-th node replaced, its configuration absent
Retyped(f, i, type) == [f EXCEPT !.nodes[i] = FlowNode(@.id, type, NoConfig)]

\* the compiled node types _execute_node has a branch for
HandledTypes == {"input", "output", "agent", "web_search", "conditional", "knowledge_base"}

Unhandled(n) == plan.compiled_nodes[n].node_type \notin HandledTypes

\* C16: a node whose type has no registered compiler never makes compile fail:
\* it compiles to the passthrough descriptor {node_type: <tag>, raw: true}; at
\* run time it (like any compiled node type the engine does not handle)
\* produces node_start, a node_output whose data is a placeholder string naming
\* the unhandled type, and node_complete, and the run still ends with
\* flow_complete.
C16_UnregisteredTypePassesThrough ==
    /\ pc[1] = "idle" =>
          \A i \in DOMAIN flow.nodes : \A type \in UnregisteredTypes :
              LET c == Compile(Retyped(flow, i, type), TRUE)
                  id == flow.nodes[i].id
              IN /\ c.status = "ok"
                 /\ c.plan.compiled_nodes[id] =
                       [CompiledNode(id, type) EXCEPT !.raw = TRUE]
                 /\ \A k \in DOMAIN c.compiler_calls : c.compiler_calls[k].node # id
    /\ \A i \in DOMAIN flow.nodes :
          flow.nodes[i].type \in UnregisteredTypes =>
             /\ plan.compiled_nodes[flow.nodes[i].id].raw
             /\ Unhandled(flow.nodes[i].id)
    /\ \A r \in Runs : \A n \in Range(Order) :
          (Unhandled(n) /\ Has(r, "node_start", n)) =>
             /\ ~ Has(r, "error", n)
             /\ \A k \in DOMAIN calls[r] : calls[r][k].node # n
             /\ \A i \in EventIdx(r, "node_output", n) :
                   events[r][i].data =
                      "[Unhandled node type: " \o plan.compiled_nodes[n].node_type \o "]"
             /\ Len(events[r]) > Max(EventIdx(r, "node_start", n)) =>
                   Has(r, "node_output", n)
             /\ (pc[r] = "closed" /\ Raised(r) = {}) =>
                   Has(r, "node_complete", n) /\ Finished(r)

\* a run with a team node ended with flow_complete after the placeholder of
\* the team node had reached an output node
C16_Witness ==
    /\ Finished(1)
    /\ \E n \in Range(Order) :
          /\ plan.compiled_nodes[n].raw
          /\ plan.compiled_nodes[n].node_type = "team"
          /\ Has(1, "node_complete", n)
          /\ \E i \in OutputsOfType(1, "output") :
                events[1][i].data = "[Unhandled node type: team]"

\* a knowledge_base node for which no knowledge was compiled
WithoutKnowledge(n) ==
    /\ plan.compiled_nodes[n].node_type = "knowledge_base"
    /\ plan.compiled_nodes[n].knowledge = None

\* the placeholder naming what the node lacks
MissingDependency(n) ==
    IF plan.compiled_nodes[n].knowledge_error # None
    THEN "[Knowledge Base unavailable: " \o plan.compiled_nodes[n].knowledge_error \o "]"
    ELSE "[Knowledge Base unavailable: Knowledge base not configured]"

\* C17: a knowledge_base node for which no backing knowledge provider was
\* compiled never triggers the fail-fast path: it produces a node_output whose
\* data is a placeholder string naming the missing dependency (the recorded
\* knowledge_error when present), followed by node_complete, its downstream
\* nodes run with that placeholder as input, and the run ends with
\* flow_complete and no error event.
C17_MissingKnowledgeIsNotFatal ==
    \A r \in Runs : \A n \in Range(Order) :
        (WithoutKnowledge(n) /\ Has(r, "node_start", n)) =>
            /\ ~ Has(r, "error", n)
            /\ \A k \in DOMAIN calls[r] : calls[r][k].node # n
            /\ \A i \in EventIdx(r, "node_output", n) :
                  /\ events[r][i].data = MissingDependency(n)
                  /\ i < Len(events[r]) => events[r][i + 1].type = "node_complete"
            /\ Len(events[r]) > Max(EventIdx(r, "node_start", n)) =>
                  Has(r, "node_output", n)
            /\ \A e \in Outgoing(n) :
                  LET m == plan.edges[e].target IN
                  /\ SkipChecked(r, m) => Has(r, "node_start", m)
                  /\ RecordedSources(r, m) = <<n>> =>
                        /\ \A i \in EventIdx(r, "node_output", m) :
                              plan.compiled_nodes[m].node_type = "output"
                                 => events[r][i].data = MissingDependency(n)
                        /\ \A k \in DOMAIN calls[r] :
                              (calls[r][k].node = m
                                 /\ calls[r][k].kind \in {"agent", "evaluator"})
                                 => calls[r][k].arg = MissingDependency(n)
            /\ (pc[r] = "closed" /\ Raised(r) = {}) =>
                  /\ Finished(r)
                  /\ \A i \in DOMAIN events[r] : events[r][i].type # "error"

\* a run ended with flow_complete after an agent was called with the
\* placeholder that carries the knowledge_error recorded at compile time
C17_Witness ==
    /\ Finished(1)
    /\ \E n \in Range(Order) :
          /\ WithoutKnowledge(n)
          /\ plan.compiled_nodes[n].knowledge_error # None
          /\ Has(1, "node_complete", n)
          /\ \E k \in DOMAIN calls[1] :
                /\ calls[1][k].kind = "agent"
                /\ calls[1][k].arg = MissingDependency(n)

\* C20: an input node's result is the runtime-supplied input when that input is
\* non-empty and otherwise the node's compiled default value (the empty string
\* when it has none); this holds for every input-type node of the plan,
\* wherever it sits in execution_order.
C20_InputNodeResult ==
    \A r \in Runs : \A i \in OutputsOfType(r, "input") :
        LET n == events[r][i].node_id
            value == plan.compiled_nodes[n].value
        IN /\ user_input[r] # "" => events[r][i].data = user_input[r]
           /\ user_input[r] = "" => events[r][i].data = value
           /\ (user_input[r] = "" /\ ~ NodeMap(flow)[n].config.present) =>
                 events[r][i].data = ""
           /\ node_outputs[r][n] = events[r][i].data
           /\ \A k \in DOMAIN calls[r] : calls[r][k].node # n

\* an input node below another node produced the runtime input, not the output
\* of its upstream node
C20_Witness ==
    \E i \in OutputsOfType(1, "input") :
        LET n == events[1][i].node_id IN
        /\ PositionIn(Order, n) > 1
        /\ Len(RecordedSources(1, n)) = 1
        /\ user_input[1] = "X"
        /\ events[1][i].data = "X"
        /\ Aggregated(1, n) # "X"

(***************************************************************************)
(* Properties of interleaved invocations on one engine                     *)
(***************************************************************************)
\* what the skip check of node n answers in run r when the run is alone: the
\* decisions it reads are those the run's own conditionals recorded
SkipsAlone(r, n) ==
    ShouldSkip(n, plan.edges, {m \in Range(Order) : Has(r, "node_skipped", m)},
               own_decisions[r])

\* C2: when two execute invocations on the same engine instance are interleaved
\* at any suspension point, each invocation produces the same skip/run
\* decisions and the same events as if it ran alone: the conditional branch
\* decisions of one invocation are never read, overwritten or cleared by the
\* other.
C2_InvocationsDoNotInterfere ==
    \A r \in Runs : \A n \in Range(Order) :
        /\ Has(r, "node_skipped", n) => SkipsAlone(r, n)
        /\ Has(r, "node_start", n) => ~ SkipsAlone(r, n)

(***************************************************************************)
(* Properties of successive invocations on one engine                      *)
(***************************************************************************)
\* C19: for two execute invocations run one after the other on the same engine
\* instance, the events of the second run (which nodes run, which are skipped,
\* every node_output and the flow_complete data) depend only on its own plan,
\* runtime input and provider/evaluator results: outputs, skipped nodes and
\* branch decisions of the first run have no effect on the second, and every
\* node of the second run is recomputed.
C19_SecondRunStartsFromScratch ==
    \A n \in Range(Order) :
        /\ Has(2, "node_skipped", n) => SkipsAlone(2, n)
        /\ Has(2, "node_start", n) => ~ SkipsAlone(2, n)
        /\ \A i \in EventIdx(2, "node_output", n) :
              LET type == plan.compiled_nodes[n].node_type
                  data == events[2][i].data
              IN /\ type = "input" => data = InputResult(user_input[2], plan.compiled_nodes[n])
                 /\ type \in {"output", "conditional"} => data = Aggregated(2, n)
                 /\ type \in {"agent", "conditional"} =>
                       \E k \in CallsFor(2, n) :
                          /\ calls[2][k].kind \in {"agent", "evaluator"}
                          /\ calls[2][k].arg = Aggregated(2, n)
                 /\ type = "conditional" => n \in DOMAIN own_decisions[2]
                 /\ data = node_outputs[2][n]
        /\ \A i \in DOMAIN events[2] :
              events[2][i].type = "flow_complete" =>
                 events[2][i].data = FinalData(Order, node_outputs[2])

\* in the second run a conditional is skipped that the first run had decided,
\* and the node on the handle the first run took is skipped with it
C19_Witness ==
    /\ Finished(1)
    /\ Finished(2)
    /\ \E c \in DOMAIN own_decisions[1] :
          /\ c \in skipped_nodes[2]
          /\ \E e \in Outgoing(c) :
                /\ plan.edges[e].source_handle = own_decisions[1][c]
                /\ plan.edges[e].target \in skipped_nodes[2]
                /\ Has(1, "node_complete", plan.edges[e].target)

(***************************************************************************)
(* Properties of a fully pulled stream                                     *)
(***************************************************************************)
\* the positions of the terminal events in the stream of run r
Terminals(r) == {i \in DOMAIN events[r] : events[r][i].type \in {"flow_complete", "error"}}

\* C21: for a plan with a finite execution_order and providers that each return
\* or raise, a fully pulled execute stream is finite: it emits at most
\* 2 + 3 * len(execution_order) events and ends with exactly one terminal event,
\* flow_complete or error, after which the stream yields nothing more.
C21_StreamIsFinite ==
    /\ [](\A r \in Runs :
             /\ Len(events[r]) <= 2 + 3 * Len(Order)
             /\ Cardinality(Terminals(r)) <= 1
             /\ \A i \in Terminals(r) : i = Len(events[r])
             /\ pc[r] = "closed" => Cardinality(Terminals(r)) = 1)
    /\ [][\A r \in Runs : pc[r] = "closed" => (events'[r] = events[r] /\ pc'[r] = "closed")]_vars
    /\ <>(pc[1] = "closed")

\* the stream of a plan of three nodes that all executed ended with its
\* eleventh event
C21_Witness ==
    /\ pc[1] = "closed"
    /\ Len(Order) = 3
    /\ Len(events[1]) = 2 + 3 * Len(Order)
    /\ events[1][Len(events[1])].type = "flow_complete"

(***************************************************************************)
(* Properties of retry_with_backoff                                        *)
(***************************************************************************)
\* the wrapper's call has ended
RetryEnded == retry.pc \in {"returned", "raised"}

\* the calls of func made so far that raised one of the listed exceptions
ListedFailures == {k \in DOMAIN retry.func_calls : retry.func_calls[k] = "listed"}

\* C22: a function wrapped by retry_with_backoff(max_attempts=N) with N >= 1 is
\* called until it first succeeds and never more than N times: if the k-th
\* call (k <= N) is the first to succeed, the wrapper returns that call's
\* result after exactly k calls, and if all N calls raise a listed exception
\* the wrapper re-raises the exception of the N-th call after exactly N calls.
C22_CalledUntilSuccessAtMostNTimes ==
    retry.max_attempts >= 1 =>
        LET N == retry.max_attempts
            func_calls == retry.func_calls
        IN /\ Len(func_calls) <= N
           /\ Len(func_calls) = retry.attempt
           /\ \A k \in DOMAIN func_calls : k < Len(func_calls) => func_calls[k] = "listed"
           /\ \A k \in DOMAIN func_calls :
                 func_calls[k] = "returned" =>
                    /\ retry.pc = "returned"
                    /\ retry.result = <<"result", k>>
                    /\ Len(func_calls) = k
           /\ retry.pc = "returned" => func_calls[Len(func_calls)] = "returned"
           /\ (retry.pc = "wrapped") <=> (func_calls = <<>>)
           /\ Cardinality(ListedFailures) = N =>
                 /\ retry.pc = "raised"
                 /\ retry.result = <<"listed", N>>
                 /\ Len(func_calls) = N
           /\ (RetryEnded /\ ListedFailures = DOMAIN func_calls) =>
                 /\ retry.pc = "raised"
                 /\ retry.result = <<"listed", N>>
                 /\ Len(func_calls) = N

\* a function wrapped with max_attempts = 4 failed twice and succeeded at its
\* third call
C22_Witness ==
    /\ retry.max_attempts = 4
    /\ retry.pc = "returned"
    /\ retry.func_calls = <<"listed", "listed", "returned">>
    /\ retry.result = <<"result", 3>>

\* C23: in retry_with_backoff, the wait inserted after the k-th failed attempt
\* (1 <= k < max_attempts) and before attempt k+1 is
\* min(base_delay * 2^(k-1), max_delay), so successive waits double until
\* capped by max_delay; no wait is inserted before the first attempt or after
\* the final failed attempt.
C23_WaitsDoubleUntilCapped ==
    LET sleeps == retry.sleeps
        N == retry.max_attempts
    IN /\ \A k \in DOMAIN sleeps :
             /\ sleeps[k].after = k
             /\ 1 <= k /\ k < N
             /\ k \in ListedFailures
             /\ sleeps[k].delay = Min(retry.base_delay * Pow2(k - 1), retry.max_delay)
             /\ sleeps[k].delay <= retry.max_delay
             /\ k > 1 => sleeps[k].delay = Min(2 * sleeps[k - 1].delay, retry.max_delay)
       /\ Len(sleeps) = Cardinality(ListedFailures \ {N})
       /\ Len(sleeps) <= Len(retry.func_calls)
       /\ Len(retry.func_calls) <= Len(sleeps) + 1
       /\ retry.func_calls = <<>> => sleeps = <<>>
       /\ retry.pc = "sleeping" <=> Len(sleeps) = Len(retry.func_calls) /\ sleeps # <<>>
       /\ (RetryEnded /\ N \in ListedFailures) => Len(sleeps) = N - 1

\* after three failures the waits were 3, 6 and the cap 10, and the fourth and
\* final failure was followed by no wait
C23_Witness ==
    /\ retry.pc = "raised"
    /\ retry.max_attempts = 4
    /\ Cardinality(ListedFailures) = 4
    /\ Len(retry.sleeps) = 3
    /\ retry.sleeps[1].delay = 3
    /\ retry.sleeps[2].delay = 6
    /\ retry.sleeps[3].delay = 10

(***************************************************************************)
(* Properties of the skip cascade                                          *)
(***************************************************************************)
\* the nodes of the plan without incoming edge
Roots == {n \in Range(Order) : Incoming(n) = {}}

\* the nodes reached from the roots along the edges at the positions in E
RECURSIVE ReachedWithin(_, _, _)
ReachedWithin(S, E, n) ==
    IF n = 0 THEN S
    ELSE ReachedWithin(S \cup {plan.edges[e].target : e \in {x \in E : plan.edges[x].source \in S}},
                       E, n - 1)

Reached(E) == ReachedWithin(Roots, E, Len(Order))

\* the edges of conditional c that declare a source-handle other than d
Untaken(c, d) ==
    {e \in Outgoing(c) : plan.edges[e].source_handle \notin {None, d}}

\* the nodes all of whose paths from the roots pass through an untaken edge of c
Below(c, d) == Range(Order) \ Reached(DOMAIN plan.edges \ Untaken(c, d))

\* the nodes reached from a root by a path of edges that are live in run r
LiveReached(r) == Reached({e \in DOMAIN plan.edges : ~ Dead(r, plan.edges[e])})

\* C24: the skip cascade is transitive: after a conditional records decision d,
\* every node all of whose paths from root nodes pass through an edge of that
\* conditional whose declared source-handle differs from d is skipped (emits
\* node_skipped and never executes), at any depth below the untaken branch,
\* while every node reachable from a root by a path of live edges only is
\* executed (absent an earlier failure).
C24_SkipCascadeIsTransitive ==
    \A r \in Runs :
        /\ \A c \in DOMAIN own_decisions[r] : \A n \in Below(c, own_decisions[r][c]) :
              /\ ~ Has(r, "node_start", n)
              /\ \A k \in DOMAIN calls[r] : calls[r][k].node # n
              /\ n \notin DOMAIN node_outputs[r]
              /\ SkipChecked(r, n) => Has(r, "node_skipped", n) /\ n \in skipped_nodes[r]
              /\ Finished(r) => Has(r, "node_skipped", n)
        /\ \A n \in LiveReached(r) :
              /\ ~ Has(r, "node_skipped", n)
              /\ SkipChecked(r, n) => Has(r, "node_start", n)
              /\ Finished(r) => Has(r, "node_complete", n)

\* a conditional decided "true"; the node on its "false" handle was skipped and
\* so were the node below that one and the node below that again
C24_Witness ==
    /\ Finished(1)
    /\ Len(Order) = 4
    /\ Len(plan.edges) = 3
    /\ own_decisions[1] = (Order[1] :> "true")
    /\ plan.edges[1].source = Order[1]
    /\ plan.edges[1].source_handle = "false"
    /\ \A i \in 1..3 : /\ plan.edges[i].source = Order[i]
                       /\ plan.edges[i].target = Order[i + 1]
    /\ skipped_nodes[1] = {Order[2], Order[3], Order[4]}
    /\ Below(Order[1], "true") = {Order[2], Order[3], Order[4]}

(***************************************************************************)
(* Properties of the engine as a single pass                               *)
(***************************************************************************)
\* the calls run r made for node n to a provider or evaluator's execution call
Invocations(r, n) ==
    {k \in CallsFor(r, n) : calls[r][k].kind \in {"agent", "evaluator", "rag"}}

\* the attempts of run r to load a source of knowledge_base node n
Loads(r, n) == {k \in CallsFor(r, n) : calls[r][k].kind = "load"}

\* C25: the engine performs no retries: within one run each node id of
\* execution_order is processed at most once, being either skipped once or
\* having its provider/evaluator invoked at most once, so no event type occurs
\* more than once for a node and a provider call that failed is never invoked
\* again.
C25_NoRetries ==
    \A r \in Runs : \A n \in Range(Order) :
        /\ \A type \in {"node_start", "node_skipped", "node_output", "node_complete",
                        "error"} :
              Cardinality(EventIdx(r, type, n)) <= 1
        /\ ~ (Has(r, "node_skipped", n) /\ Has(r, "node_start", n))
        /\ Has(r, "node_skipped", n) => CallsFor(r, n) = {}
        /\ Cardinality(Invocations(r, n)) <= 1
        /\ Cardinality(Loads(r, n)) <= Len(plan.compiled_nodes[n].sources)
        /\ \A k, m \in Loads(r, n) : calls[r][k].arg = calls[r][m].arg => k = m
        /\ \A k \in CallsFor(r, n) :
              calls[r][k].kind = "raised" =>
                 /\ k = Len(calls[r])
                 /\ Cardinality({m \in CallsFor(r, n) : calls[r][m].kind = "raised"}) = 1
                 /\ pc[r] \in {"error", "closed"}

\* the provider of the second agent of a plan raised after the first agent had
\* answered: each was invoked once and the run ended
C25_Witness ==
    /\ pc[1] = "closed"
    /\ Len(Order) >= 2
    /\ Cardinality(Invocations(1, Order[1])) = 1
    /\ Has(1, "node_complete", Order[1])
    /\ Cardinality(Invocations(1, Order[2])) = 1
    /\ calls[1][Len(calls[1])].kind = "raised"
    /\ calls[1][Len(calls[1])].node = Order[2]
    /\ calls[1][Len(calls[1])].arg = "provider failed"

(***************************************************************************)
(* Properties of the engine instance after an invocation                   *)
(***************************************************************************)
\* C26: after an execute invocation has ended (by flow_complete, by error, or by
\* abandonment), the engine instance retains no state of that run: every field
\* of the engine instance has the value it had before the invocation, and the
\* run's outputs, skipped set and branch decisions are not reachable from the
\* engine.
C26_EngineRetainsNoRunState ==
    \A r \in Runs :
        pc[r] = "closed" =>
            /\ branch_decisions = EmptyMap
            /\ \A n \in DOMAIN own_decisions[r] : n \notin DOMAIN branch_decisions

(***************************************************************************)
(* Properties of a knowledge_base node with sources                        *)
(***************************************************************************)
\* the calls of run r for node n, each as its kind and argument, in the order
\* they were made
CallSeq(r, n) ==
    LET of == SelectSeq(calls[r], LAMBDA c : c.node = n)
    IN [k \in DOMAIN of |-> <<of[k].kind, of[k].arg>>]

\* the knowledge_base nodes of the plan with a knowledge and sources to load
KnowledgeNodes ==
    {n \in Range(Order) : /\ plan.compiled_nodes[n].node_type = "knowledge_base"
                          /\ plan.compiled_nodes[n].knowledge # None
                          /\ plan.compiled_nodes[n].sources # <<>>}

\* one attempt per source in the order given, each followed by its exception
\* when the source cannot be loaded
RECURSIVE LoadAttempts(_)
LoadAttempts(sources) ==
    IF sources = <<>> THEN <<>>
    ELSE <<<<"load", Head(sources)>>>>
            \o (IF Head(sources) \in provider.unloadable
                THEN <<<<"load_failed", Head(sources)>>>> ELSE <<>>)
            \o LoadAttempts(Tail(sources))

IsPrefix(a, b) == Len(a) <= Len(b) /\ a = SubSeq(b, 1, Len(a))

\* C31: for a knowledge_base node with a compiled provider and configured
\* sources, the sources are attempted one by one in configured order before the
\* query; the failure to load any subset of them (even all) never produces an
\* error event; the retrieval query is then issued exactly once with the
\* aggregated upstream input; only a failure of that query itself takes the
\* fail-fast path.
C31_SourcesAreLoadedBestEffort ==
    \A r \in Runs : \A n \in KnowledgeNodes :
        LET attempts == LoadAttempts(plan.compiled_nodes[n].sources)
            query == <<<<"rag", Aggregated(r, n)>>>>
            failure == <<<<"raised", "provider failed">>>>
        IN /\ IsPrefix(CallSeq(r, n), attempts \o query \o failure)
           /\ Has(r, "node_output", n) => CallSeq(r, n) = attempts \o query
           /\ Has(r, "error", n) <=> CallSeq(r, n) = attempts \o query \o failure
           /\ pc[r] = "in_kb_query" /\ CurrentNode(r) = n => CallSeq(r, n) = attempts \o query

\* none of the two sources of a knowledge_base node could be loaded; the query
\* was issued with the output of the node upstream and answered, and the node
\* completed
C31_Witness ==
    \E n \in KnowledgeNodes :
        /\ Range(plan.compiled_nodes[n].sources) = provider.unloadable
        /\ Len(plan.compiled_nodes[n].sources) = 2
        /\ Has(1, "node_complete", n)
        /\ Len(CallSeq(1, n)) = 5
        /\ CallSeq(1, n)[5][1] = "rag"
        /\ CallSeq(1, n)[5][2] # ""
        /\ ~ \E m \in Range(Order) : Has(1, "error", m)

(***************************************************************************)
(* Properties of the default evaluator                                     *)
(***************************************************************************)
\* the content says true: its first characters that are not blank spell true
\* in letters of either case
SaysTrue(answer) ==
    \E i \in 1..Len(answer) :
        /\ \A j \in 1..(i - 1) : answer[j] \in {" ", "\n"}
        /\ Len(answer) >= i + 3
        /\ answer[i] \in {"t", "T"}
        /\ answer[i + 1] \in {"r", "R"}
        /\ answer[i + 2] \in {"u", "U"}
        /\ answer[i + 3] \in {"e", "E"}

\* the answers the evaluator's model gave for node n in run r
Answers(r, n) == {k \in CallsFor(r, n) : calls[r][k].kind = "answered"}

ConditionalNodes ==
    {n \in Range(Order) : plan.compiled_nodes[n].node_type = "conditional"}

\* C34: with the default (provider-backed) evaluator, the branch decision
\* recorded for an executed conditional node is always exactly "true" or
\* "false": it is "true" iff the provider's answer, trimmed and lower-cased,
\* starts with "true", and "false" for every other answer including an empty
\* one; exactly one decision is recorded per executed conditional and none for
\* a skipped conditional.
C34_DefaultDecisionIsNormalised ==
    ~ condition_evaluator =>
        \A r \in Runs :
            /\ DOMAIN own_decisions[r] \subseteq ConditionalNodes
            /\ \A n \in ConditionalNodes :
                  /\ n \in DOMAIN own_decisions[r] <=> Has(r, "node_output", n)
                  /\ n \in DOMAIN own_decisions[r] <=> Answers(r, n) # {}
                  /\ Cardinality(Answers(r, n)) <= 1
                  /\ \A k \in Answers(r, n) :
                        /\ own_decisions[r][n] \in {"true", "false"}
                        /\ own_decisions[r][n] = "true" <=> SaysTrue(calls[r][k].arg)
                        /\ calls[r][k].arg = <<>> => own_decisions[r][n] = "false"
                        /\ branch_decisions[n] = own_decisions[r][n]
                  /\ Has(r, "node_skipped", n) =>
                        /\ n \notin DOMAIN own_decisions[r]
                        /\ n \notin DOMAIN branch_decisions

\* the evaluator's model answered " True." for a conditional, which decided
\* "true", and a conditional on its false handle was skipped without a decision
C34_Witness ==
    /\ ~ condition_evaluator
    /\ \E n, m \in ConditionalNodes :
          /\ \E k \in Answers(1, n) : calls[1][k].arg = <<" ", "T", "r", "u", "e", ".">>
          /\ own_decisions[1][n] = "true"
          /\ Has(1, "node_skipped", m)
          /\ m \notin DOMAIN branch_decisions

(***************************************************************************)
(* Properties of compile on a flow that declares an id twice               *)
(***************************************************************************)
\* C35: compile never returns a plan for a graph in which two nodes share an
\* id: validation reports nothing for it, and the sort step then fails with the
\* cycle error because the order can contain at most one entry per distinct id,
\* even when the edges contain no cycle.
C35_SharedIdNeverCompiles ==
    (Compiled /\ ~ UniqueIds(flow)) =>
        /\ compile_result.status \in {"validation", "cycle"}
        /\ compile_result.plan = NoPlan
        /\ compile_result.compiler_calls = <<>>
        /\ \A k \in DOMAIN compile_result.errors :
              /\ compile_result.errors[k][1] \in {"unknown source", "unknown target"}
              /\ compile_result.errors[k][3] \notin NodeIdSet(flow)
        /\ compile_result.status = "validation" <=> UnknownSource \cup UnknownTarget # {}
        /\ compile_result.status = "cycle" =>
              /\ compile_result.errors = <<>>
              /\ Len(SortedNodeIds) <= Cardinality(NodeIdSet(flow))
              /\ Cardinality(NodeIdSet(flow)) < Len(flow.nodes)
              /\ \A i, j \in DOMAIN SortedNodeIds :
                    SortedNodeIds[i] = SortedNodeIds[j] => i = j

\* three nodes, two of them with one id, and an edge between the two ids: the
\* edges hold no cycle, every id was sorted, and compile raised the cycle error
C35_Witness ==
    /\ Compiled
    /\ Len(flow.nodes) = 3
    /\ Cardinality(NodeIdSet(flow)) = 2
    /\ flow.edges # <<>>
    /\ ~ HasCycle(flow)
    /\ compile_result.status = "cycle"
    /\ Len(SortedNodeIds) = 2

(***************************************************************************)
(* Properties of the compiled input node                                   *)
(***************************************************************************)
\* C38: the default value compiled for an input node is its configured label
\* (the empty string when the node has no input_output configuration),
\* whatever other nodes the graph contains, whatever their ids are and wherever
\* the input node falls in execution_order.
C38_InputDefaultIsItsLabel ==
    compile_result.status = "ok" =>
        \A i \in DOMAIN flow.nodes :
            flow.nodes[i].type = "input" =>
                compile_result.plan.compiled_nodes[flow.nodes[i].id].value =
                    (IF flow.nodes[i].config.present THEN flow.nodes[i].config.label ELSE "")

(***************************************************************************)
(* Properties of node_outputs and skipped_nodes during a run               *)
(***************************************************************************)
\* the nodes at or before the position the for loop of run r has reached
Visited(r) == {Order[i] : i \in {j \in DOMAIN Order : j <= idx[r]}}

\* the nodes run r is through with: skipped, or completed
Processed(r) ==
    {n \in Range(Order) : Has(r, "node_skipped", n) \/ Has(r, "node_complete", n)}

\* C36: at every point of a run over a compiler-produced plan, the set of node
\* ids with a recorded output and the set of skipped node ids are disjoint,
\* both contain only nodes at or before the current position of
\* execution_order, every fully processed node is in exactly one of them, and
\* an output once recorded is never overwritten or removed for the rest of the
\* run (also not when a later node fails).
C36_OutputsAndSkipsPartition ==
    /\ [](\A r \in Runs :
             /\ DOMAIN node_outputs[r] \cap skipped_nodes[r] = {}
             /\ DOMAIN node_outputs[r] \cup skipped_nodes[r] \subseteq Visited(r)
             /\ Processed(r) \subseteq DOMAIN node_outputs[r] \cup skipped_nodes[r]
             /\ \A n \in Processed(r) :
                   /\ n \in skipped_nodes[r] <=> Has(r, "node_skipped", n)
                   /\ n \in DOMAIN node_outputs[r] <=> Has(r, "node_complete", n)
             /\ Visited(r) \ Processed(r) \subseteq
                   {Order[i] : i \in {j \in DOMAIN Order : j = idx[r]}})
    /\ [][\A r \in Runs : \A n \in DOMAIN node_outputs[r] :
              /\ n \in DOMAIN node_outputs'[r]
              /\ node_outputs'[r][n] = node_outputs[r][n]
              /\ skipped_nodes[r] \subseteq skipped_nodes'[r]]_vars

\* the third node of a plan failed after the first had recorded its output and
\* the second had been skipped: the output and the skip are still there when
\* the generator has finished
C36_Witness ==
    /\ Len(Order) = 3
    /\ pc[1] = "closed"
    /\ Has(1, "error", Order[3])
    /\ Has(1, "node_complete", Order[1])
    /\ DOMAIN node_outputs[1] = {Order[1]}
    /\ skipped_nodes[1] = {Order[2]}

(***************************************************************************)
(* Properties of the aggregated input over live and dead edges             *)
(***************************************************************************)
\* the aggregated inputs node n was given in run r: the argument of its
\* provider or evaluator call, and the result of an output node
InputsOf(r, n) ==
    {calls[r][k].arg : k \in Invocations(r, n)}
        \cup {events[r][i].data : i \in EventIdx(r, "node_output", n)
                                        \cap OutputsOfType(r, "output")}

\* the sources of the edges into n that satisfy P, in the order of the edges
SourcesWhere(n, P(_)) ==
    LET into == SelectSeq(plan.edges, LAMBDA e : e.target = n /\ P(e))
    IN [i \in DOMAIN into |-> into[i].source]

\* the outputs of the sources listed, put together as an aggregated input
AggregateOf(r, sources) ==
    LET J[k \in 0..Len(sources)] ==
          IF k = 0 THEN ""
          ELSE IF k = 1 THEN Block(r, sources[1])
          ELSE J[k - 1] \o "\n\n" \o Block(r, sources[k])
    IN IF Len(sources) = 1 THEN node_outputs[r][sources[1]] ELSE J[Len(sources)]

\* C37: the aggregated input of a running node contains the output of a source
\* s of one of its incoming edges if and only if s recorded an output in this
\* run, regardless of whether the edge from s is live or dead: a skipped source
\* never contributes, while an executed conditional contributes its output even
\* over an edge whose source-handle differs from its decision when the node
\* runs because of another live edge.
C37_RecordedSourcesContribute ==
    \A r \in Runs : \A n \in Range(Order) : \A input \in InputsOf(r, n) :
        LET recorded == SourcesWhere(n, LAMBDA e : e.source \in DOMAIN node_outputs[r])
            live == SourcesWhere(n, LAMBDA e : ~ Dead(r, e))
            untaken == SourcesWhere(n, LAMBDA e : /\ e.source \in DOMAIN own_decisions[r]
                                                 /\ Dead(r, e))
        IN /\ input = AggregateOf(r, recorded)
           /\ Range(recorded) \cap skipped_nodes[r] = {}
           /\ Range(live) \cup Range(untaken) = Range(recorded)
           /\ Len(live) + Len(untaken) = Len(recorded)
           /\ untaken # <<>> => input # AggregateOf(r, live)

\* an output node ran because of the live edge from an input node; its other
\* edge names the handle the conditional upstream did not take, and the
\* conditional's output is part of what the node was given
C37_Witness ==
    \E n \in Range(Order) : \E c \in DOMAIN own_decisions[1] : \E e \in Incoming(n) :
        /\ plan.compiled_nodes[n].node_type = "output"
        /\ Has(1, "node_output", n)
        /\ plan.edges[e].source = c
        /\ Dead(1, plan.edges[e])
        /\ Len(SourcesWhere(n, LAMBDA x : ~ Dead(1, x))) = 1
        /\ node_outputs[1][n] =
              AggregateOf(1, SourcesWhere(n, LAMBDA x : TRUE))
        /\ node_outputs[1][c] # ""

(***************************************************************************)
(* Properties of the execution WebSocket                                   *)
(***************************************************************************)

\* an execute message that cannot lead to a run: its flow is missing, is no
\* FlowDefinition, or does not compile
BadExecute(m) ==
    /\ m.action = "execute"
    /\ \/ m.payload \in {"missing", "invalid"}
       \/ Compile(m.flow, TRUE).status \in {"validation", "cycle", "config"}

\* an execute message whose flow compiles
GoodExecute(m) ==
    /\ m.action = "execute"
    /\ m.payload = "flow"
    /\ Compile(m.flow, TRUE).status = "ok"

\* the handler has answered received message j as the message's kind requires,
\* unless the client went away before the answer
ProcessedNormally(j) ==
    LET m == websocket.received[j]
        answered == j < Len(websocket.received) \/ websocket.pc # "ended"
                        \/ websocket.open
    IN  /\ GoodExecute(m) => j \in Range(websocket.runs)
        /\ m.action = "ping" =>
              /\ \A i \in 1..Len(SentFor(j)) : SentFor(j)[i].body.type = "pong"
              /\ answered => Len(SentFor(j)) = 1
        /\ (~ GoodExecute(m) /\ m.action # "ping") =>
              /\ \A i \in 1..Len(SentFor(j)) : SentFor(j)[i].body.type = "error"
              /\ answered => Len(SentFor(j)) = 1

\* C32: an execute message whose flow is missing, does not parse or does not
\* compile (validation, cycle or configuration error) is answered with exactly
\* one error message and nothing else, unless the client has gone before the
\* answer; no engine invocation is begun for it and receiving it changes
\* nothing of the engine; the handler is then back at its receive and handles
\* the next message of the connection as that message's kind requires
C32_BadExecuteIsAnsweredWithOneError ==
    /\ [](\A k \in 1..Len(websocket.received) :
             BadExecute(websocket.received[k]) =>
                /\ k \notin Range(websocket.runs)
                /\ Len(SentFor(k)) <= 1
                /\ \A i \in 1..Len(SentFor(k)) :
                      /\ SentFor(k)[i].body.type = "error"
                      /\ SentFor(k)[i].body.message
                            \in {"Missing 'flow' payload", "Invalid flow",
                                 "Compilation failed: validation",
                                 "Compilation failed: cycle",
                                 "Compilation failed: config"}
                /\ Len(SentFor(k)) = 0 =>
                      /\ k = Len(websocket.received)
                      /\ websocket.pc = "ended"
                      /\ ~ websocket.open
                /\ (k = Len(websocket.received) /\ Len(SentFor(k)) = 1) =>
                      websocket.pc \in {"receive", "ended"}
                /\ k < Len(websocket.received) => ProcessedNormally(k + 1))
    /\ [][(/\ Len(websocket'.received) > Len(websocket.received)
           /\ BadExecute(websocket'.received[Len(websocket'.received)]))
             => /\ UNCHANGED engine_vars
                /\ websocket'.runs = websocket.runs]_vars

\* a flow with a cycle was refused with one error message, and the execute
\* message after it ran its flow to the end, every event sent to the client
C32_Witness ==
    /\ Len(websocket.received) = 2
    /\ websocket.received[1].action = "execute"
    /\ websocket.received[1].payload = "flow"
    /\ Compile(websocket.received[1].flow, TRUE).status = "cycle"
    /\ Len(SentFor(1)) = 1
    /\ SentFor(1)[1].body.type = "error"
    /\ websocket.runs = <<2>>
    /\ websocket.pc = "receive"
    /\ Len(SentFor(2)) = Len(events[1])
    /\ SentFor(2)[Len(SentFor(2))].body.type = "flow_complete"

\* the events sent to the client for engine invocation r
SentOfRun(r) ==
    LET of_run == SentFor(websocket.runs[r]) IN
    [i \in 1..Len(of_run) |-> of_run[i].body]

Over == {"closed", "abandoned"}

\* C33: the events sent for a run are the run's events in order up to the first
\* one whose send failed; after that failure the run produces no event, makes no
\* provider call, records no output and nothing more of it is sent, each call
\* of a run being made only when every event before it was sent; and the
\* handler pulls an event only from the run of the message it is handling,
\* while every earlier run of the connection is finished or abandoned
C33_FailedSendEndsTheRun ==
    /\ [](/\ \A r \in 1..Len(websocket.runs) :
                /\ IsPrefix(SentOfRun(r), events[r])
                /\ pc[r] = "abandoned" => Len(events[r]) = Len(SentOfRun(r)) + 1
                /\ \A i \in 1..Len(calls[r]) : calls[r][i].delivered <= Len(SentOfRun(r))
                /\ r < Len(websocket.runs) => pc[r] \in Over
                /\ websocket.pc # "streaming" => pc[r] \in Over
          /\ \A r \in Runs : r > Len(websocket.runs) => pc[r] = "idle")
    /\ [][\A r \in Runs :
            /\ pc[r] = "abandoned" =>
                  /\ pc'[r] = "abandoned"
                  /\ events'[r] = events[r]
                  /\ calls'[r] = calls[r]
                  /\ pulls'[r] = pulls[r]
                  /\ node_outputs'[r] = node_outputs[r]
                  /\ SentFor(websocket.runs[r])' = SentFor(websocket.runs[r])
            /\ pulls'[r] # pulls[r] =>
                  /\ websocket.pc = "streaming"
                  /\ r = CurrentRun
                  /\ \A q \in Runs \ {r} : pc[q] \in Over \cup {"idle"}]_vars

\* the send of the input node's output failed with the client still there: the
\* agent after it was never called, and the next execute message of the
\* connection ran its flow to the end
C33_Witness ==
    /\ websocket.runs = <<1, 2>>
    /\ websocket.open
    /\ pc[1] = "abandoned"
    /\ Len(events[1]) = 3
    /\ events[1][3].type = "node_output"
    /\ Len(SentOfRun(1)) = 2
    /\ \E i \in DOMAIN websocket.received[1].flow.nodes :
          websocket.received[1].flow.nodes[i].type = "agent"
    /\ calls[1] = <<>>
    /\ pc[2] = "closed"
    /\ Len(SentOfRun(2)) = Len(events[2])
    /\ events[2][Len(events[2])].type = "flow_complete"

====
